---- MODULE Spec2Model ----
(***************************************************************************)
(* The conversational video-assembly server (src/server.js, second half):   *)
(* the in-memory project registry, the four request handlers               *)
(* (create-project, upload-file, project-status, assemble-video) and the   *)
(* helpers they call.                                                      *)
(*                                                                         *)
(* Strings that the code takes apart (file names, MIME types) are          *)
(* sequences of one-character strings, so that path.extname, toLowerCase   *)
(* and startsWith are computed and not looked up.  The empty sequence is   *)
(* the empty string, which JavaScript treats as falsy.                     *)
(***************************************************************************)
EXTENDS Integers, Sequences, FiniteSets, TLC

(* ------------------------------ bounds --------------------------------- *)

\* Projects that may be created (projects is an unbounded Map in the code).
MaxProjects == 1

\* Uploads that may be accepted, over all projects.
MaxUploads == 2

\* Runs of assembleVideo that may be started, over all projects.
MaxLaunches == 2

(* ------------------------------ strings -------------------------------- *)

Range(s) == { s[i] : i \in 1..Len(s) }

UpperCase == <<"A","B","C","D","E","F","G","H","I","J","K","L","M",
               "N","O","P","Q","R","S","T","U","V","W","X","Y","Z">>

LowerCase == <<"a","b","c","d","e","f","g","h","i","j","k","l","m",
               "n","o","p","q","r","s","t","u","v","w","x","y","z">>

\* String.prototype.toLowerCase, one character.
lowerChar(c) ==
  IF \E i \in 1..Len(UpperCase) : UpperCase[i] = c
  THEN LowerCase[CHOOSE i \in 1..Len(UpperCase) : UpperCase[i] = c]
  ELSE c

\* The string as it was written, with no case folding.
sameCase(s) == s

\* String.prototype.toLowerCase.
toLowerCase(s) == [i \in 1..Len(s) |-> lowerChar(s[i])]

\* String.prototype.startsWith.
startsWith(s, prefix) ==
  /\ Len(s) >= Len(prefix)
  /\ SubSeq(s, 1, Len(prefix)) = prefix

\* path.extname for a name without directory separators: from the last "."
\* to the end, or "" when there is no "." or the only "." leads the name.
extname(name) ==
  LET dots == { i \in 1..Len(name) : name[i] = "." }
  IN  IF dots = {} THEN <<>>
      ELSE LET last_dot == CHOOSE i \in dots : \A j \in dots : j <= i
           IN  IF last_dot = 1 THEN <<>> ELSE SubSeq(name, last_dot, Len(name))

(* ------------------------------ inputs --------------------------------- *)

NoName == <<>>

ImageA == <<"a", ".", "p", "n", "g">>
TtsT   == <<"t", ".", "m", "p", "3">>
BgmM   == <<"m", ".", "M", "P", "3">>
ClipX  == <<"c", ".", "x", "y", "z">>

\* The fileName field of an upload request.
FileNames == {ImageA, TtsT, BgmM, ClipX}

ImagePng  == <<"i","m","a","g","e","/","p","n","g">>
AudioMpeg == <<"a","u","d","i","o","/","m","p","e","g">>

\* req.file when the request carries no file part.
NoFile == [none |-> TRUE]

\* req.file as multer hands it over: the byte size and the declared type.
UploadFiles ==
  { [size |-> 0, mimetype |-> ImagePng],
    [size |-> 1, mimetype |-> ImagePng],
    [size |-> 1, mimetype |-> AudioMpeg] }

\* req.body.settings when the body has none.
NoSettings == [none |-> TRUE]

\* A descriptor without scenes and without background music.
SettingsEmpty == [scenes |-> <<>>, bgm |-> NoName]

\* One scene with an image and a narration track.
SettingsOne ==
  [scenes |-> << [image |-> ImageA, tts |-> TtsT, sfx |-> NoName] >>,
   bgm    |-> NoName]

\* Two scenes sharing the image; the narration of the first is the sound
\* effect of the second; background music.
SettingsTwo ==
  [scenes |-> << [image |-> ImageA, tts |-> TtsT,   sfx |-> NoName],
                 [image |-> ImageA, tts |-> NoName, sfx |-> TtsT] >>,
   bgm    |-> BgmM]

Descriptors == {SettingsEmpty, SettingsOne, SettingsTwo}

(* ------------------------------ helpers -------------------------------- *)

\* JavaScript truthiness of a string field: non-empty.
Truthy(v) == v # <<>>

\* What one scene pushes onto files, in the order image, tts, sfx.
sceneFiles(scene) ==
  (IF Truthy(scene.image) THEN <<scene.image>> ELSE <<>>)
  \o (IF Truthy(scene.tts) THEN <<scene.tts>> ELSE <<>>)
  \o (IF Truthy(scene.sfx) THEN <<scene.sfx>> ELSE <<>>)

RECURSIVE allSceneFiles(_)
\* settings.scenes.forEach(scene => ...push...).
allSceneFiles(scenes) ==
  IF scenes = <<>> THEN <<>>
  ELSE sceneFiles(Head(scenes)) \o allSceneFiles(Tail(scenes))

\* The array handed back without the Set round trip.
DedupeNone(files) == files

RECURSIVE Dedupe(_)
\* [...new Set(files)]: first occurrences, in insertion order.
Dedupe(files) ==
  IF files = <<>> THEN <<>>
  ELSE LET front == Dedupe(SubSeq(files, 1, Len(files) - 1))
           x     == files[Len(files)]
       IN  IF x \in Range(front) THEN front ELSE Append(front, x)

\* extractRequiredFiles(settings).
extractRequiredFiles(settings) ==
  Dedupe(allSceneFiles(settings.scenes)
         \o (IF Truthy(settings.bgm) THEN <<settings.bgm>> ELSE <<>>))

AllowedExts ==
  { <<".","m","p","3">>, <<".","w","a","v">>, <<".","m","4","a">>,
    <<".","j","p","g">>, <<".","j","p","e","g">>, <<".","p","n","g">>,
    <<".","g","i","f">>, <<".","m","p","4">>, <<".","m","o","v">> }

ImageExts == { <<".","j","p","g">>, <<".","j","p","e","g">>,
               <<".","p","n","g">>, <<".","g","i","f">> }

AudioExts == { <<".","m","p","3">>, <<".","w","a","v">>, <<".","m","4","a">> }

\* validateFile with the extension check moved before the size check.
validateFileExtFirst(file, expectedFileName) ==
  LET ext == toLowerCase(extname(expectedFileName))
  IN  IF ext \notin AllowedExts
        THEN [valid |-> FALSE, error |-> "UnsupportedExtension"]
      ELSE IF file.size = 0
        THEN [valid |-> FALSE, error |-> "EmptyAsset"]
      ELSE IF ext \in ImageExts /\ ~startsWith(file.mimetype, <<"i","m","a","g","e","/">>)
        THEN [valid |-> FALSE, error |-> "ContentTypeMismatch"]
      ELSE IF ext \in AudioExts /\ ~startsWith(file.mimetype, <<"a","u","d","i","o","/">>)
        THEN [valid |-> FALSE, error |-> "ContentTypeMismatch"]
      ELSE [valid |-> TRUE, error |-> ""]

\* validateFile(file, expectedFileName): the checks in the code's order.
validateFile(file, expectedFileName) ==
  LET ext == toLowerCase(extname(expectedFileName))
  IN  IF file.size = 0
        THEN [valid |-> FALSE, error |-> "EmptyAsset"]
      ELSE IF ext \notin AllowedExts
        THEN [valid |-> FALSE, error |-> "UnsupportedExtension"]
      ELSE IF ext \in ImageExts /\ ~startsWith(file.mimetype, <<"i","m","a","g","e","/">>)
        THEN [valid |-> FALSE, error |-> "ContentTypeMismatch"]
      ELSE IF ext \in AudioExts /\ ~startsWith(file.mimetype, <<"a","u","d","i","o","/">>)
        THEN [valid |-> FALSE, error |-> "ContentTypeMismatch"]
      ELSE [valid |-> TRUE, error |-> ""]

\* The percentage with Math.floor in the place of Math.round.
PercentageFloor(uploaded, total) ==
  IF total = 0
  THEN [kind |-> IF uploaded = 0 THEN "NaN" ELSE "Infinity", val |-> 0]
  ELSE [kind |-> "num", val |-> (100 * uploaded) \div total]

\* Math.round((uploaded / total) * 100) with uploaded/total a float division:
\* 0/0 is NaN, n/0 is Infinity, otherwise the nearest integer, halves up.
\* (The integer formula equals the double-precision result for the totals
\* the descriptors above give, 0..3.)
Percentage(uploaded, total) ==
  IF total = 0
  THEN [kind |-> IF uploaded = 0 THEN "NaN" ELSE "Infinity", val |-> 0]
  ELSE [kind |-> "num", val |-> (200 * uploaded + total) \div (2 * total)]

\* The progress object of the upload and status responses.
Progress(project) ==
  [uploaded   |-> Cardinality(DOMAIN project.uploadedFiles),
   total      |-> Len(project.requiredFiles),
   percentage |-> Percentage(Cardinality(DOMAIN project.uploadedFiles),
                             Len(project.requiredFiles))]

\* project.requiredFiles.filter(fileName => !project.uploadedFiles.has(fileName))
missingFiles(project) ==
  SelectSeq(project.requiredFiles,
            LAMBDA fileName : fileName \notin DOMAIN project.uploadedFiles)

\* Readiness taken from the counts instead of the missing list.
CanAssembleByCount(missing, project) ==
  Cardinality(DOMAIN project.uploadedFiles) >= Len(project.requiredFiles)

\* canAssemble = missingFiles.length === 0
CanAssemble(missing, project) == Len(missing) = 0

\* path.join(project.projectDir, fileName): the directory is the project's.
TargetPath(projectId, fileName) == <<projectId, fileName>>

(* ------------------------------- state --------------------------------- *)

VARIABLES
  projects,      \* projectId -> projectData (the Map projects)
  projectFiles,  \* projectId -> (fileName -> filePath) (the Map projectFiles)
  projectDir,    \* projectId -> (fileName -> file): the files in projectDir
  jobs,          \* projectId -> the runs of assembleVideo still in flight
  launched,      \* projectId -> how many runs of assembleVideo were started
  last,          \* the handler step taken last and the response it sent
  pending,       \* the upload requests suspended at an await of the handler
  probe          \* a helper applied on its own: its arguments and its result

vars == <<projects, projectFiles, projectDir, jobs, launched, last,
          pending, probe>>

NoPath == 0

NoProgress == [uploaded |-> 0, total |-> 0,
               percentage |-> [kind |-> "none", val |-> 0]]

\* A step's record: the request (op, pid, the settings of a create and, for
\* an upload that reached fs.move, fileName and file), the response (code,
\* error and the body's fields; code = 0: no response sent in this step),
\* the run of assembleVideo the step started or ended, and what became of
\* the temporary file multer wrote (tmp).
NoEvent ==
  [op |-> "none", pid |-> 0, fileName |-> NoName, file |-> NoFile,
   settings |-> NoSettings, code |-> 0, error |-> "",
   progress |-> NoProgress, missingFiles |-> <<>>, canAssemble |-> FALSE,
   status |-> "", uploadedFiles |-> {}, run |-> 0, outputPath |-> NoPath,
   output |-> "none", tmp |-> "none"]

\* No upload request is suspended.
NoPending == << >>

\* No helper has been applied on its own.
NoProbe == [fn |-> "none"]

ProjectIds == 1..MaxProjects

RECURSIVE SumTo(_, _)
SumTo(f, n) == IF n = 0 THEN 0 ELSE f[n] + SumTo(f, n - 1)

\* Accepted uploads so far: the entries of all uploadedFiles maps.
TotalUploads ==
  SumTo([p \in DOMAIN projects |->
           Cardinality(DOMAIN projects[p].uploadedFiles)], Len(projects))

\* Runs of assembleVideo started so far.
TotalLaunched == SumTo(launched, Len(launched))

\* Ids a request may name: those of the registry and one it never holds.
RequestIds == 1..(MaxProjects + 1)

Init ==
  /\ projects = << >>
  /\ projectFiles = << >>
  /\ projectDir = << >>
  /\ jobs = << >>
  /\ launched = << >>
  /\ last = NoEvent
  /\ pending = NoPending
  /\ probe = NoProbe


\* Map.prototype.set: the entry is added, or replaced when the key exists.
MapSet(m, k, v) ==
  [x \in (DOMAIN m) \cup {k} |-> IF x = k THEN v ELSE m[x]]

\* Whether the step's temporary upload (multer's file in uploadDir) exists.
TmpOf(file, fate) == IF file = NoFile THEN "none" ELSE fate

(* ----------------------- POST /api/create-project ---------------------- *)

\* !settings: 400, nothing is created.
CreateNoSettings ==
  /\ last' = [NoEvent EXCEPT !.op = "create", !.code = 400,
                             !.error = "NoSettings"]
  /\ UNCHANGED <<projects, projectFiles, projectDir, jobs, launched>>
  /\ UNCHANGED <<pending, probe>>

\* ensureDir or writeJson throws: the catch block answers 500 before the
\* registry is touched.
CreateProjectError ==
  /\ last' = [NoEvent EXCEPT !.op = "create", !.code = 500,
                             !.error = "CreateError"]
  /\ UNCHANGED <<projects, projectFiles, projectDir, jobs, launched>>
  /\ UNCHANGED <<pending, probe>>

\* The project is stored under a fresh id (uuidv4: here the next integer)
\* with status 'created', an empty uploadedFiles and an empty file mapping.
CreateProject(settings) ==
  /\ Len(projects) < MaxProjects
  /\ LET projectId   == Len(projects) + 1
         projectData == [id            |-> projectId,
                         settings      |-> settings,
                         requiredFiles |-> extractRequiredFiles(settings),
                         uploadedFiles |-> << >>,
                         status        |-> "created",
                         outputPath    |-> NoPath]
     IN  /\ projects' = Append(projects, projectData)
         /\ projectFiles' = Append(projectFiles, << >>)
         /\ projectDir' = Append(projectDir, << >>)
         /\ jobs' = Append(jobs, {})
         /\ launched' = Append(launched, 0)
         /\ last' = [NoEvent EXCEPT !.op = "create", !.pid = projectId,
                                    !.settings = settings, !.code = 200]
  /\ UNCHANGED <<pending, probe>>

(* --------------------- POST /api/upload-file/:projectId ---------------- *)

\* The handler with the !req.file check moved before the project lookup.
UploadUnknownProjectFileFirst(projectId, file) ==
  /\ projectId \notin DOMAIN projects
  /\ last' = [NoEvent EXCEPT !.op = "upload", !.pid = projectId,
                             !.code = IF file = NoFile THEN 400 ELSE 404,
                             !.error = IF file = NoFile THEN "NoFile"
                                       ELSE "UnknownProject",
                             !.tmp = TmpOf(file, "left")]
  /\ UNCHANGED <<projects, projectFiles, projectDir, jobs, launched>>
  /\ UNCHANGED <<pending, probe>>

\* !project: 404.  The temporary file multer wrote stays in uploadDir.
UploadUnknownProject(projectId, file) ==
  /\ projectId \notin DOMAIN projects
  /\ last' = [NoEvent EXCEPT !.op = "upload", !.pid = projectId,
                             !.code = 404, !.error = "UnknownProject",
                             !.tmp = TmpOf(file, "left")]
  /\ UNCHANGED <<projects, projectFiles, projectDir, jobs, launched>>
  /\ UNCHANGED <<pending, probe>>

\* !req.file: 400.
UploadNoFile(projectId) ==
  /\ projectId \in DOMAIN projects
  /\ last' = [NoEvent EXCEPT !.op = "upload", !.pid = projectId,
                             !.code = 400, !.error = "NoFile"]
  /\ UNCHANGED <<projects, projectFiles, projectDir, jobs, launched>>
  /\ UNCHANGED <<pending, probe>>

\* The handler without the return after the failed validation: the maps are
\* updated although the file was removed.
UploadInvalidKept(projectId, fileName, file) ==
  /\ projectId \in DOMAIN projects
  /\ ~validateFile(file, fileName).valid
  /\ LET targetPath == TargetPath(projectId, fileName)
         entry == [path |-> targetPath, size |-> file.size,
                   mimetype |-> file.mimetype]
     IN  /\ projectFiles' = [projectFiles EXCEPT
                               ![projectId] = MapSet(@, fileName, targetPath)]
         /\ projects' = [projects EXCEPT
                           ![projectId].uploadedFiles = MapSet(@, fileName, entry)]
  /\ last' = [NoEvent EXCEPT !.op = "upload", !.pid = projectId,
                             !.code = 400,
                             !.error = validateFile(file, fileName).error,
                             !.tmp = "removed"]
  /\ UNCHANGED <<projectDir, jobs, launched>>
  /\ UNCHANGED <<pending, probe>>

\* !validation.valid: the temporary file is removed and the validator's
\* error is answered with 400.
UploadInvalid(projectId, fileName, file) ==
  /\ projectId \in DOMAIN projects
  /\ ~validateFile(file, fileName).valid
  /\ last' = [NoEvent EXCEPT !.op = "upload", !.pid = projectId,
                             !.code = 400,
                             !.error = validateFile(file, fileName).error,
                             !.tmp = "removed"]
  /\ UNCHANGED <<projects, projectFiles, projectDir, jobs, launched>>
  /\ UNCHANGED <<pending, probe>>

\* fs.move(req.file.path, targetPath) is called without { overwrite: true }:
\* fs-extra then rejects with 'dest already exists.' when targetPath exists.
\* The catch block answers 500; the maps are not reached.
UploadMoveFailed(projectId, fileName, file) ==
  /\ projectId \in DOMAIN projects
  /\ validateFile(file, fileName).valid
  /\ fileName \in DOMAIN projectDir[projectId]
  /\ last' = [NoEvent EXCEPT !.op = "upload", !.pid = projectId,
                             !.fileName = fileName, !.file = file,
                             !.code = 500, !.error = "UploadError",
                             !.tmp = "left"]
  /\ UNCHANGED <<projects, projectFiles, projectDir, jobs, launched>>
  /\ UNCHANGED <<pending, probe>>

\* The upload handler marking the project ready once nothing is missing.
UploadAcceptedMarksReady(projectId, fileName, file) ==
  /\ projectId \in DOMAIN projects
  /\ validateFile(file, fileName).valid
  /\ fileName \notin DOMAIN projectDir[projectId]
  /\ TotalUploads < MaxUploads
  /\ LET targetPath == TargetPath(projectId, fileName)
         entry == [path |-> targetPath, size |-> file.size,
                   mimetype |-> file.mimetype]
         stored == [projects[projectId] EXCEPT
                      !.uploadedFiles = MapSet(@, fileName, entry)]
     IN  /\ projectDir' = [projectDir EXCEPT
                             ![projectId] = MapSet(@, fileName, file)]
         /\ projectFiles' = [projectFiles EXCEPT
                               ![projectId] = MapSet(@, fileName, targetPath)]
         /\ projects' = [projects EXCEPT
                           ![projectId] =
                             [stored EXCEPT
                                !.status = IF missingFiles(stored) = <<>>
                                           THEN "ready" ELSE @]]
         /\ last' = [NoEvent EXCEPT !.op = "upload", !.pid = projectId,
                                    !.fileName = fileName, !.file = file,
                                    !.code = 200,
                                    !.progress = Progress(projects'[projectId]),
                                    !.tmp = "moved"]
  /\ UNCHANGED <<jobs, launched>>
  /\ UNCHANGED <<pending, probe>>

\* The file is moved into projectDir, then fileMap.set and
\* project.uploadedFiles.set run in one synchronous block with the response.
UploadAccepted(projectId, fileName, file) ==
  /\ projectId \in DOMAIN projects
  /\ validateFile(file, fileName).valid
  /\ fileName \notin DOMAIN projectDir[projectId]
  /\ TotalUploads < MaxUploads
  /\ LET targetPath == TargetPath(projectId, fileName)
         entry == [path |-> targetPath, size |-> file.size,
                   mimetype |-> file.mimetype]
     IN  /\ projectDir' = [projectDir EXCEPT
                             ![projectId] = MapSet(@, fileName, file)]
         /\ projectFiles' = [projectFiles EXCEPT
                               ![projectId] = MapSet(@, fileName, targetPath)]
         /\ projects' = [projects EXCEPT
                           ![projectId].uploadedFiles = MapSet(@, fileName, entry)]
         /\ last' = [NoEvent EXCEPT !.op = "upload", !.pid = projectId,
                                    !.fileName = fileName, !.file = file,
                                    !.code = 200,
                                    !.progress = Progress(projects'[projectId]),
                                    !.tmp = "moved"]
  /\ UNCHANGED <<jobs, launched>>
  /\ UNCHANGED <<pending, probe>>

(* -------------------- GET /api/project-status/:projectId --------------- *)

\* !project: 404.
StatusUnknownProject(projectId) ==
  /\ projectId \notin DOMAIN projects
  /\ last' = [NoEvent EXCEPT !.op = "status", !.pid = projectId,
                             !.code = 404, !.error = "UnknownProject"]
  /\ UNCHANGED <<projects, projectFiles, projectDir, jobs, launched>>
  /\ UNCHANGED <<pending, probe>>

\* The status handler waiting until no ffmpeg run is in flight.
ProjectStatusAfterRuns(projectId) ==
  /\ projectId \in DOMAIN projects
  /\ \A p \in DOMAIN projects : jobs[p] = {}
  /\ LET project == projects[projectId]
         missing == missingFiles(project)
     IN  last' = [NoEvent EXCEPT !.op = "status", !.pid = projectId,
                                 !.code = 200,
                                 !.status = project.status,
                                 !.uploadedFiles = DOMAIN project.uploadedFiles,
                                 !.progress = Progress(project),
                                 !.missingFiles = missing,
                                 !.canAssemble = CanAssemble(missing, project)]
  /\ UNCHANGED <<projects, projectFiles, projectDir, jobs, launched>>
  /\ UNCHANGED <<pending, probe>>

\* The status body: progress, missingFiles, canAssemble, project.status.
ProjectStatus(projectId) ==
  /\ projectId \in DOMAIN projects
  /\ LET project == projects[projectId]
         missing == missingFiles(project)
     IN  last' = [NoEvent EXCEPT !.op = "status", !.pid = projectId,
                                 !.code = 200,
                                 !.status = project.status,
                                 !.uploadedFiles = DOMAIN project.uploadedFiles,
                                 !.progress = Progress(project),
                                 !.missingFiles = missing,
                                 !.canAssemble = CanAssemble(missing, project)]
  /\ UNCHANGED <<projects, projectFiles, projectDir, jobs, launched>>
  /\ UNCHANGED <<pending, probe>>

(* -------------------- POST /api/assemble-video/:projectId -------------- *)

\* !project: 404.
AssembleUnknownProject(projectId) ==
  /\ projectId \notin DOMAIN projects
  /\ last' = [NoEvent EXCEPT !.op = "assemble", !.pid = projectId,
                             !.code = 404, !.error = "UnknownProject"]
  /\ UNCHANGED <<projects, projectFiles, projectDir, jobs, launched>>
  /\ UNCHANGED <<pending, probe>>

\* The handler with project.status = 'assembling' moved before the check.
AssembleNotReadyStatusFirst(projectId) ==
  /\ projectId \in DOMAIN projects
  /\ missingFiles(projects[projectId]) # <<>>
  /\ projects' = [projects EXCEPT ![projectId].status = "assembling"]
  /\ last' = [NoEvent EXCEPT !.op = "assemble", !.pid = projectId,
                             !.code = 400, !.error = "NotReady",
                             !.missingFiles = missingFiles(projects[projectId])]
  /\ UNCHANGED <<projectFiles, projectDir, jobs, launched>>
  /\ UNCHANGED <<pending, probe>>

\* missingFiles.length > 0: 400 with the missing names, before any write.
AssembleNotReady(projectId) ==
  /\ projectId \in DOMAIN projects
  /\ missingFiles(projects[projectId]) # <<>>
  /\ last' = [NoEvent EXCEPT !.op = "assemble", !.pid = projectId,
                             !.code = 400, !.error = "NotReady",
                             !.missingFiles = missingFiles(projects[projectId])]
  /\ UNCHANGED <<projects, projectFiles, projectDir, jobs, launched>>
  /\ UNCHANGED <<pending, probe>>

\* Nothing is missing: project.status = 'assembling' and assembleVideo is
\* called, whatever the status was.  The handler then waits on the promise;
\* no response is sent in this step.
AssembleStart(projectId) ==
  /\ projectId \in DOMAIN projects
  /\ missingFiles(projects[projectId]) = <<>>
  /\ TotalLaunched < MaxLaunches
  /\ LET run == launched[projectId] + 1
     IN  /\ projects' = [projects EXCEPT ![projectId].status = "assembling"]
         /\ launched' = [launched EXCEPT ![projectId] = run]
         /\ jobs' = [jobs EXCEPT ![projectId] = @ \cup {run}]
         /\ last' = [NoEvent EXCEPT !.op = "assemble", !.pid = projectId,
                                    !.run = run]
  /\ UNCHANGED <<projectFiles, projectDir>>
  /\ UNCHANGED <<pending, probe>>

\* The transcode can only end well when it has something to encode: without
\* scenes no input is added and the command fails.
CanSucceed(settings) == Len(settings.scenes) > 0

\* What ffmpeg may have left at outputPath when it exits with code 0: the
\* code never looks at the file.
OutputFiles == {"missing", "empty", "written"}

\* ffmpeg's 'end' (exit code 0): the promise resolves with outputPath; the
\* handler stores status 'completed' and the output path and answers 200,
\* whatever is at outputPath (output).
AssembleDone(projectId, run, output) ==
  /\ projectId \in DOMAIN projects
  /\ run \in jobs[projectId]
  /\ CanSucceed(projects[projectId].settings)
  /\ projects' = [projects EXCEPT ![projectId].status = "completed",
                                  ![projectId].outputPath = run]
  /\ jobs' = [jobs EXCEPT ![projectId] = @ \ {run}]
  /\ last' = [NoEvent EXCEPT !.op = "assembleEnd", !.pid = projectId,
                             !.run = run, !.code = 200, !.outputPath = run,
                             !.output = output]
  /\ UNCHANGED <<projectFiles, projectDir, launched>>
  /\ UNCHANGED <<pending, probe>>

\* The catch block without its status assignment.
AssembleCatchKeepStatus(projectId, run) ==
  /\ projectId \in DOMAIN projects
  /\ run \in jobs[projectId]
  /\ jobs' = [jobs EXCEPT ![projectId] = @ \ {run}]
  /\ last' = [NoEvent EXCEPT !.op = "assembleEnd", !.pid = projectId,
                             !.run = run, !.code = 500,
                             !.error = "AssembleError"]
  /\ UNCHANGED <<projects, projectFiles, projectDir, launched>>
  /\ UNCHANGED <<pending, probe>>

\* The catch block starting assembleVideo again after a failure.
AssembleCatchRetry(projectId, run) ==
  /\ projectId \in DOMAIN projects
  /\ run \in jobs[projectId]
  /\ IF TotalLaunched < MaxLaunches
       THEN /\ projects' = [projects EXCEPT ![projectId].status = "assembling"]
            /\ launched' = [launched EXCEPT ![projectId] = @ + 1]
            /\ jobs' = [jobs EXCEPT
                          ![projectId] = (@ \ {run})
                                           \cup {launched[projectId] + 1}]
       ELSE /\ projects' = [projects EXCEPT ![projectId].status = "error"]
            /\ launched' = launched
            /\ jobs' = [jobs EXCEPT ![projectId] = @ \ {run}]
  /\ last' = [NoEvent EXCEPT !.op = "assembleEnd", !.pid = projectId,
                             !.run = run, !.code = 500,
                             !.error = "AssembleError"]
  /\ UNCHANGED <<projectFiles, projectDir>>
  /\ UNCHANGED <<pending, probe>>

\* The promise rejects (a throw while the command is built, or ffmpeg's
\* 'error'): the catch block stores status 'error' and answers 500.
AssembleCatch(projectId, run) ==
  /\ projectId \in DOMAIN projects
  /\ run \in jobs[projectId]
  /\ projects' = [projects EXCEPT ![projectId].status = "error"]
  /\ jobs' = [jobs EXCEPT ![projectId] = @ \ {run}]
  /\ last' = [NoEvent EXCEPT !.op = "assembleEnd", !.pid = projectId,
                             !.run = run, !.code = 500,
                             !.error = "AssembleError"]
  /\ UNCHANGED <<projectFiles, projectDir, launched>>
  /\ UNCHANGED <<pending, probe>>

(* --------------------------- the system -------------------------------- *)

Next ==
  \/ CreateNoSettings
  \/ CreateProjectError
  \/ \E settings \in Descriptors : CreateProject(settings)
  \/ \E projectId \in RequestIds, file \in UploadFiles \cup {NoFile} :
       UploadUnknownProject(projectId, file)
  \/ \E projectId \in RequestIds : UploadNoFile(projectId)
  \/ \E projectId \in RequestIds, fileName \in FileNames, file \in UploadFiles :
       \/ UploadInvalid(projectId, fileName, file)
       \/ UploadMoveFailed(projectId, fileName, file)
       \/ UploadAccepted(projectId, fileName, file)
  \/ \E projectId \in RequestIds :
       \/ StatusUnknownProject(projectId)
       \/ ProjectStatus(projectId)
       \/ AssembleUnknownProject(projectId)
       \/ AssembleNotReady(projectId)
       \/ AssembleStart(projectId)
  \/ \E projectId \in RequestIds, run \in 1..MaxLaunches :
       \/ \E output \in OutputFiles : AssembleDone(projectId, run, output)
       \/ AssembleCatch(projectId, run)

Spec == Init /\ [][Next]_vars

(* ------------------------------ claims --------------------------------- *)

Registry == <<projects, projectFiles, projectDir, jobs, launched>>

\* C1: a second assemble request for a project (with scenes and all its
\* required assets) that is in state assembling, with its transcode still
\* running, fails with AlreadyAssembling and starts no further transcode.
C1_SecondAssembleRejected ==
  [][\A p \in DOMAIN projects :
       ( /\ last'.op = "assemble"
         /\ last'.pid = p
         /\ Len(projects[p].settings.scenes) > 0
         /\ missingFiles(projects[p]) = <<>>
         /\ projects[p].status = "assembling"
         /\ jobs[p] # {} )
       => ( /\ last'.error = "AlreadyAssembling"
            /\ launched'[p] = launched[p]
            /\ jobs'[p] = jobs[p] )]_vars

\* C2: an assemble request for a project with a required name missing is
\* answered 400 NotReady with the missing names, starts no transcode and
\* leaves the registry (state, asset maps, output path) as it was.
C2_NotReadyLeavesProject ==
  [][\A p \in DOMAIN projects :
       ( /\ last'.op = "assemble"
         /\ last'.pid = p
         /\ \E name \in Range(projects[p].requiredFiles) :
              name \notin DOMAIN projects[p].uploadedFiles )
       => ( /\ last'.code = 400
            /\ last'.error = "NotReady"
            /\ last'.missingFiles # <<>>
            /\ UNCHANGED Registry )]_vars

\* A NotReady answer for a project that holds some of its assets.
C2_Witness ==
  /\ last.op = "assemble"
  /\ last.error = "NotReady"
  /\ last.pid \in DOMAIN projects
  /\ DOMAIN projects[last.pid].uploadedFiles # {}
  /\ projects[last.pid].status = "created"

\* C3: the missing list of a status response holds exactly the required
\* names that are keys of neither asset map, each once, and canAssemble is
\* true exactly when that list is empty, that is when every required name
\* is uploaded.
C3_StatusMissingExact ==
  (last.op = "status" /\ last.code = 200) =>
    LET project == projects[last.pid]
        missing == Range(project.requiredFiles) \ DOMAIN project.uploadedFiles
    IN  /\ Range(last.missingFiles) = missing
        /\ Len(last.missingFiles) = Cardinality(missing)
        /\ DOMAIN projectFiles[last.pid] = DOMAIN project.uploadedFiles
        /\ last.canAssemble <=> (missing = {})

\* A status response with a name missing although as many names are
\* uploaded as are required.
C3_Witness ==
  /\ last.op = "status"
  /\ last.code = 200
  /\ last.missingFiles # <<>>
  /\ last.progress.uploaded = last.progress.total

C5_AssembleOutcome ==
  [][/\ \A p \in DOMAIN projects :
          /\ ( /\ last'.op = "assemble"
               /\ last'.pid = p
               /\ missingFiles(projects[p]) = <<>> )
             => ( /\ projects'[p].status = "assembling"
                  /\ last'.run \in jobs'[p] \ jobs[p] )
          /\ ( last'.op = "assembleEnd" /\ last'.pid = p )
             => ( /\ last'.run \in jobs[p] \ jobs'[p]
                  /\ IF last'.code = 200
                     THEN /\ projects'[p].status = "completed"
                          /\ projects'[p].outputPath = last'.outputPath
                          /\ last'.outputPath = last'.run
                     ELSE projects'[p].status = "error" )
     /\ \A p \in DOMAIN projects' :
          projects'[p].status = "assembling" => jobs'[p] # {}]_vars

\* A failed transcode has ended and the project is in error.
C5_Witness ==
  /\ last.op = "assembleEnd"
  /\ last.code = 500
  /\ projects[last.pid].settings = SettingsOne
  /\ projects[last.pid].status = "error"
  /\ jobs[last.pid] = {}

\* C6: a valid upload under a name that is already a key of the asset map
\* succeeds, keeps the number of keys and leaves the entry holding the path,
\* size and content type of this upload.
C6_ReuploadOverwrites ==
  [][( /\ last'.op = "upload"
       /\ last'.file # NoFile
       /\ last'.pid \in DOMAIN projects
       /\ last'.fileName \in DOMAIN projects[last'.pid].uploadedFiles
       /\ validateFile(last'.file, last'.fileName).valid )
     => ( /\ last'.code = 200
          /\ DOMAIN projects'[last'.pid].uploadedFiles
               = DOMAIN projects[last'.pid].uploadedFiles
          /\ projects'[last'.pid].uploadedFiles[last'.fileName]
               = [path     |-> TargetPath(last'.pid, last'.fileName),
                  size     |-> last'.file.size,
                  mimetype |-> last'.file.mimetype] )]_vars

ValidationErrors == {"EmptyAsset", "UnsupportedExtension", "ContentTypeMismatch"}

\* C7: an upload rejected by the validator is answered 400 with the
\* validator's error, its temporary file is removed and the registry and
\* the project directory stay as they were; an upload that changes the
\* registry or a project directory carried an asset the validator accepts.
C7_InvalidUploadInsertsNothing ==
  [][/\ ( last'.op = "upload" /\ last'.error \in ValidationErrors )
          => ( /\ last'.code = 400
               /\ last'.tmp = "removed"
               /\ UNCHANGED Registry )
     /\ ( last'.op = "upload" /\ Registry' # Registry )
          => ( /\ last'.code = 200
               /\ last'.file # NoFile
               /\ validateFile(last'.file, last'.fileName).valid )]_vars

\* A content-type mismatch was rejected for a project that holds an asset.
C7_Witness ==
  /\ last.op = "upload"
  /\ last.error = "ContentTypeMismatch"
  /\ last.pid \in DOMAIN projects
  /\ DOMAIN projects[last.pid].uploadedFiles # {}

\* C8: an upload, status or assemble request naming an id that is not in
\* the registry is answered 404 and changes nothing.
C8_UnknownProjectRejected ==
  [][( /\ last'.op \in {"upload", "status", "assemble"}
       /\ last'.pid \notin DOMAIN projects )
     => ( /\ last'.code = 404
          /\ last'.error = "UnknownProject"
          /\ UNCHANGED Registry )]_vars

\* An upload naming an unknown id was answered 404 while a project exists.
C8_Witness ==
  /\ last.op = "upload"
  /\ last.code = 404
  /\ last.pid \notin DOMAIN projects
  /\ Len(projects) > 0

\* C9: a create request whose descriptor has no scenes fails with
\* EmptyDescriptor and adds no project.
C9_EmptyDescriptorRejected ==
  [][( /\ last'.op = "create"
       /\ last'.settings # NoSettings
       /\ Len(last'.settings.scenes) = 0 )
     => ( /\ last'.error = "EmptyDescriptor"
          /\ projects' = projects )]_vars

\* The non-empty values of the image, tts and sfx fields of all scenes and
\* of the bgm field.
ReferencedNames(settings) ==
  ( UNION { {settings.scenes[i].image, settings.scenes[i].tts,
             settings.scenes[i].sfx} : i \in 1..Len(settings.scenes) }
    \cup {settings.bgm} ) \ {<<>>}

\* C10: the required files of a project are exactly the non-empty names its
\* descriptor refers to, each once, and no more than the 3 fields per scene
\* plus bgm.
C10_RequiredFilesExact ==
  \A p \in DOMAIN projects :
    LET project == projects[p]
    IN  /\ Range(project.requiredFiles) = ReferencedNames(project.settings)
        /\ Cardinality(Range(project.requiredFiles)) = Len(project.requiredFiles)
        /\ Len(project.requiredFiles) <= 3 * Len(project.settings.scenes) + 1

\* A project whose descriptor names 5 files, 3 of them distinct.
C10_Witness ==
  \E p \in DOMAIN projects :
    /\ projects[p].settings = SettingsTwo
    /\ Len(projects[p].requiredFiles) = 3

\* C18: once a project's assembly has ended, completed or failed, the
\* uploaded input files are gone from its directory.
C18_InputsRemovedAfterAssembly ==
  ( /\ last.op = "assembleEnd"
    /\ Len(projects[last.pid].settings.scenes) > 0 )
  => DOMAIN projectDir[last.pid] = {}

\* C21: an assembly is answered as completed, with an output path, only
\* when ffmpeg exited with code 0 and left a non-empty file at that path.
C21_SuccessNeedsOutputFile ==
  (last.op = "assembleEnd" /\ last.code = 200) =>
    ( /\ last.outputPath # NoPath
      /\ projects[last.pid].outputPath = last.outputPath
      /\ last.output = "written" )

\* C22: once a project (with scenes) is completed or failed and no run of
\* it is in flight, no later request changes its status or starts another
\* run.
C22_TerminalStatesStay ==
  [][\A p \in DOMAIN projects :
       ( /\ projects[p].status \in {"completed", "error"}
         /\ jobs[p] = {}
         /\ Len(projects[p].settings.scenes) > 0 )
       => ( /\ projects'[p].status = projects[p].status
            /\ launched'[p] = launched[p] )]_vars

(* ---------------------- validateFile on its own ------------------------ *)

VideoV    == <<"v", ".", "m", "p", "4">>
MovieV    == <<"v", ".", "M", "O", "V">>
PhotoJ    == <<"p", ".", "J", "p", "G">>
PhotoE    == <<"p", ".", "j", "p", "e", "g">>
AnimG     == <<"g", ".", "g", "i", "f">>
WaveW     == <<"w", ".", "W", "A", "V">>
VoiceQ    == <<"q", ".", "m", "4", "a">>
BareN     == <<"n">>
DotPng    == <<".", "p", "n", "g">>
PngExe    == <<"a", ".", "p", "n", "g", ".", "e", "x", "e">>
TrailDot  == <<"d", ".">>

\* Names a client may give an upload: every allowed extension, some of
\* them in upper or mixed case, and names with no allowed extension.
ValidateNames ==
  FileNames \cup {VideoV, MovieV, PhotoJ, PhotoE, AnimG, WaveW, VoiceQ,
                  BareN, DotPng, PngExe, TrailDot}

VideoMp4    == <<"v","i","d","e","o","/","m","p","4">>
OctetStream == <<"a","p","p","l","i","c","a","t","i","o","n","/",
                 "o","c","t","e","t","-","s","t","r","e","a","m">>

\* The req.file of such an upload: empty or not, of four declared types.
ValidateFiles ==
  { [size |-> n, mimetype |-> m] :
      n \in {0, 1}, m \in {ImagePng, AudioMpeg, VideoMp4, OctetStream} }

\* One call of validateFile, the only step of a behaviour; the registry is
\* not involved.
ValidateFile(file, expectedFileName) ==
  /\ probe = NoProbe
  /\ probe' = [fn |-> "validateFile", file |-> file,
               expectedFileName |-> expectedFileName,
               result |-> validateFile(file, expectedFileName)]
  /\ UNCHANGED <<projects, projectFiles, projectDir, jobs, launched, last,
                 pending>>

ValidateNext ==
  \E file \in ValidateFiles, expectedFileName \in ValidateNames :
    ValidateFile(file, expectedFileName)

ValidateSpec == Init /\ [][ValidateNext]_vars

\* The extensions of the three asset categories, without the dot.
CategoryExtensions ==
  [image |-> { <<"j","p","g">>, <<"j","p","e","g">>, <<"p","n","g">>,
               <<"g","i","f">> },
   audio |-> { <<"m","p","3">>, <<"w","a","v">>, <<"m","4","a">> },
   video |-> { <<"m","p","4">>, <<"m","o","v">> }]

\* The name ends with "." and e in any letter case, after at least one
\* other character.
EndsWithExtension(name, e) ==
  /\ Len(name) > Len(e) + 1
  /\ name[Len(name) - Len(e)] = "."
  /\ \A i \in 1..Len(e) :
       LET c == name[Len(name) - Len(e) + i]
       IN  \/ c = e[i]
           \/ \E k \in 1..Len(LowerCase) : LowerCase[k] = e[i] /\ UpperCase[k] = c

\* The category of a name's extension, "none" when it has no allowed one.
NameCategory(name) ==
  IF \E c \in DOMAIN CategoryExtensions :
       \E e \in CategoryExtensions[c] : EndsWithExtension(name, e)
  THEN CHOOSE c \in DOMAIN CategoryExtensions :
         \E e \in CategoryExtensions[c] : EndsWithExtension(name, e)
  ELSE "none"

\* The category of a declared content type: its primary type.
TypeCategory(mimetype) ==
  IF startsWith(mimetype, <<"i","m","a","g","e","/">>) THEN "image"
  ELSE IF startsWith(mimetype, <<"a","u","d","i","o","/">>) THEN "audio"
  ELSE IF startsWith(mimetype, <<"v","i","d","e","o","/">>) THEN "video"
  ELSE "other"

\* C11: an asset whose name's extension is of one category (image, audio,
\* video) and whose declared content type is of another is rejected, with
\* ContentTypeMismatch when it is not empty.
C11_CategoryMismatchRejected ==
  ( /\ probe.fn = "validateFile"
    /\ NameCategory(probe.expectedFileName) # "none"
    /\ TypeCategory(probe.file.mimetype) # NameCategory(probe.expectedFileName) )
  => ( /\ ~probe.result.valid
       /\ probe.file.size # 0 => probe.result.error = "ContentTypeMismatch" )

\* C12: an asset whose name has none of the extensions jpg, jpeg, png, gif,
\* mp3, wav, m4a, mp4, mov (in any letter case) is rejected whatever its
\* declared type, with UnsupportedExtension when it is not empty; a name
\* with one of them, in any letter case, is never answered so.
C12_UnsupportedExtensionRejected ==
  probe.fn = "validateFile" =>
    IF NameCategory(probe.expectedFileName) = "none"
    THEN /\ ~probe.result.valid
         /\ probe.file.size # 0 => probe.result.error = "UnsupportedExtension"
    ELSE probe.result.error # "UnsupportedExtension"

\* A non-empty file of a declared image type under a name whose last
\* extension is not allowed although an allowed one precedes it.
C12_Witness ==
  /\ probe.fn = "validateFile"
  /\ probe.expectedFileName = PngExe
  /\ probe.file = [size |-> 1, mimetype |-> ImagePng]
  /\ probe.result.error = "UnsupportedExtension"

\* C13: an asset of size 0 is rejected with EmptyAsset whatever its name
\* and declared type, before the extension and the type are looked at.
C13_EmptyAssetFirst ==
  (probe.fn = "validateFile" /\ probe.file.size = 0) =>
    (~probe.result.valid /\ probe.result.error = "EmptyAsset")

\* An empty file whose name and declared type would each be rejected too.
C13_Witness ==
  /\ probe.fn = "validateFile"
  /\ probe.file.size = 0
  /\ NameCategory(probe.expectedFileName) = "none"
  /\ probe.result.error = "EmptyAsset"

(* ------------------- escapeFFmpegText on its own ----------------------- *)

\* Longest subtitle text that is escaped.
MaxText == 3

\* A plain letter and the characters the two escaping functions deal with.
TextChars == {"a", "\\", "'", "\"", ":", "[", "]", ",", ";"}

Texts == UNION { [1..n -> TextChars] : n \in 0..MaxText }

\* String.prototype.replace with a global one-character pattern: every
\* occurrence of c in s becomes replacement.
RECURSIVE replaceAll(_, _, _)
replaceAll(s, c, replacement) ==
  IF s = <<>> THEN <<>>
  ELSE (IF Head(s) = c THEN replacement ELSE <<Head(s)>>)
       \o replaceAll(Tail(s), c, replacement)

\* The seven replacements with the backslash handled last.
escapeFFmpegTextBackslashLast(text) ==
  IF text = <<>> THEN <<>>
  ELSE LET r1 == replaceAll(text, "'", <<"\\", "'">>)
           r2 == replaceAll(r1, "\"", <<"\\", "\"">>)
           r3 == replaceAll(r2, ":", <<"\\", ":">>)
           r4 == replaceAll(r3, "[", <<"\\", "[">>)
           r5 == replaceAll(r4, ",", <<"\\", ",">>)
           r6 == replaceAll(r5, ";", <<"\\", ";">>)
       IN  replaceAll(r6, "\\", <<"\\", "\\">>)

\* escapeFFmpegText of the conversational server: seven replacements, the
\* backslash first; "]" is not among them.
escapeFFmpegText(text) ==
  IF text = <<>> THEN <<>>
  ELSE LET r1 == replaceAll(text, "\\", <<"\\", "\\">>)
           r2 == replaceAll(r1, "'", <<"\\", "'">>)
           r3 == replaceAll(r2, "\"", <<"\\", "\"">>)
           r4 == replaceAll(r3, ":", <<"\\", ":">>)
           r5 == replaceAll(r4, "[", <<"\\", "[">>)
           r6 == replaceAll(r5, ",", <<"\\", ",">>)
       IN  replaceAll(r6, ";", <<"\\", ";">>)

\* escapeFFmpegText of the /api/process-video handler: eight replacements,
\* "]" included.
processVideoEscapeFFmpegText(text) ==
  IF text = <<>> THEN <<>>
  ELSE LET r1 == replaceAll(text, "\\", <<"\\", "\\">>)
           r2 == replaceAll(r1, "'", <<"\\", "'">>)
           r3 == replaceAll(r2, "\"", <<"\\", "\"">>)
           r4 == replaceAll(r3, ":", <<"\\", ":">>)
           r5 == replaceAll(r4, "[", <<"\\", "[">>)
           r6 == replaceAll(r5, "]", <<"\\", "]">>)
           r7 == replaceAll(r6, ",", <<"\\", ",">>)
       IN  replaceAll(r7, ";", <<"\\", ";">>)

\* One call of the conversational server's escapeFFmpegText.
EscapeText(text) ==
  /\ probe = NoProbe
  /\ probe' = [fn |-> "escapeFFmpegText", text |-> text,
               result |-> escapeFFmpegText(text)]
  /\ UNCHANGED <<projects, projectFiles, projectDir, jobs, launched, last,
                 pending>>

\* One call of the /api/process-video handler's escapeFFmpegText.
ProcessVideoEscapeText(text) ==
  /\ probe = NoProbe
  /\ probe' = [fn |-> "processVideoEscapeFFmpegText", text |-> text,
               result |-> processVideoEscapeFFmpegText(text)]
  /\ UNCHANGED <<projects, projectFiles, projectDir, jobs, launched, last,
                 pending>>

EscapeNext ==
  \E text \in Texts :
    \/ EscapeText(text)
    \/ ProcessVideoEscapeText(text)

EscapeSpec == Init /\ [][EscapeNext]_vars

\* The characters of the filter syntax that the subtitle text must not
\* hold unescaped.
Metacharacters == {"\\", "'", "\"", ":", "[", "]", ",", ";"}

\* Read from the left, s consists of characters that are no metacharacter
\* and of pairs of a backslash and the character it escapes.
RECURSIVE WellEscaped(_)
WellEscaped(s) ==
  IF s = <<>> THEN TRUE
  ELSE IF Head(s) = "\\"
    THEN Len(s) >= 2 /\ WellEscaped(SubSeq(s, 3, Len(s)))
  ELSE Head(s) \notin Metacharacters /\ WellEscaped(Tail(s))

\* C16: in the text the conversational server's escapeFFmpegText returns,
\* every backslash, single quote, double quote, colon, opening bracket,
\* closing bracket, comma and semicolon of the subtitle text is preceded
\* by a backslash that escapes it.
C16_MetacharactersEscaped ==
  probe.fn = "escapeFFmpegText" => WellEscaped(probe.result)

(* ---------------------- assembleVideo on its own ----------------------- *)
(* What assembleVideo builds before it starts ffmpeg: the inputs in the    *)
(* order of the ffmpegCommand.input calls, the filter text as the sequence *)
(* of its ";"-separated nodes (input labels, filter, output label) and the *)
(* -map options.  Stream and node indices start at 0 as in the code.  A    *)
(* node's end is the text the code writes after it: ";" or nothing.  A     *)
(* -map option is a label and whether it is written in brackets.          *)

\* Scenes of a descriptor given to assembleVideo on its own.
MaxScenes == 3

Img1 == <<"1", ".", "p", "n", "g">>
Img2 == <<"2", ".", "p", "n", "g">>
Img3 == <<"3", ".", "p", "n", "g">>
Img4 == <<"4", ".", "j", "p", "g">>
Tts1 == <<"1", ".", "m", "p", "3">>
Tts3 == <<"3", ".", "m", "p", "3">>
Tts5 == <<"5", ".", "m", "p", "3">>

\* Five scenes: with and without narration, with a positive, a zero, a
\* negative and no duration, with and without subtitle and font size, and
\* one that names no image.
SceneKinds ==
  { [image |-> Img1, tts |-> Tts1, sfx |-> NoName, duration |-> 2],
    [image |-> Img2, tts |-> NoName, sfx |-> NoName, duration |-> 0,
     subtitle |-> [text |-> <<"a", "]", ":">>]],
    [image |-> Img3, tts |-> Tts3, sfx |-> NoName,
     subtitle |-> [text |-> <<"b", "'">>, fontSize |-> 200]],
    [image |-> Img4, tts |-> NoName, sfx |-> NoName, duration |-> -1,
     subtitle |-> [text |-> <<>>]],
    [image |-> NoName, tts |-> Tts5, sfx |-> NoName, duration |-> 1] }

\* The descriptor's global settings, volumes in tenths: background music
\* at 0.5 and narration at 0.8, and a target resolution of 640x360.
GlobalVolumes ==
  [backgroundMusicVolume |-> 5, voiceVolume |-> 8, resolution |-> <<640, 360>>]

\* Descriptors of up to MaxScenes scenes, with and without background
\* music, with and without global settings.
AssembleDescriptors ==
  { [scenes |-> scenes, bgm |-> bgm] :
      scenes \in UNION { [1..n -> SceneKinds] : n \in 0..MaxScenes },
      bgm \in {NoName, BgmM} }
  \cup
  { [scenes |-> scenes, bgm |-> bgm, global |-> GlobalVolumes] :
      scenes \in UNION { [1..n -> SceneKinds] : n \in 0..MaxScenes },
      bgm \in {NoName, BgmM} }

\* The candidates of findAvailableFont, in its order.
FontPaths ==
  << "/System/Library/Fonts/Helvetica.ttc",
     "/System/Library/Fonts/Arial.ttf",
     "/usr/share/fonts/truetype/noto/NotoSansCJK-Regular.ttc",
     "/usr/share/fonts/truetype/dejavu/DejaVuSans.ttf",
     "/usr/share/fonts/TTF/NotoSansCJK-Regular.ttc" >>

\* The font files of the host: none, or the two Linux TrueType fonts.
FontHosts == { {}, {FontPaths[3], FontPaths[4]} }

\* findAvailableFont: the first candidate that exists, else 'Arial'.
findAvailableFont(existing) ==
  IF \E i \in 1..Len(FontPaths) : FontPaths[i] \in existing
  THEN FontPaths[CHOOSE i \in 1..Len(FontPaths) :
                   /\ FontPaths[i] \in existing
                   /\ \A j \in 1..(i - 1) : FontPaths[j] \notin existing]
  ELSE "Arial"

\* The file mapping of a project (here project 1) that holds every
\* required file, which the assemble handler checks before the call.
FileMappingOf(settings) ==
  [name \in Range(extractRequiredFiles(settings)) |-> TargetPath(1, name)]

\* scene.duration || 3
SceneDuration(scene) ==
  IF "duration" \in DOMAIN scene /\ scene.duration # 0
  THEN scene.duration ELSE 3

\* The image inputs: one per scene that names an image, in scene order.
RECURSIVE imageInputs(_, _)
imageInputs(scenes, fileMapping) ==
  IF scenes = <<>> THEN <<>>
  ELSE (IF Truthy(Head(scenes).image)
        THEN <<fileMapping[Head(scenes).image]>> ELSE <<>>)
       \o imageInputs(Tail(scenes), fileMapping)

\* The audioInputs entries of the scenes with narration, in scene order;
\* audioIndex counts on from settings.scenes.length.
RECURSIVE ttsAudioInputs(_, _, _)
ttsAudioInputs(scenes, index, audioIndex) ==
  IF index = Len(scenes) THEN <<>>
  ELSE IF Truthy(scenes[index + 1].tts)
    THEN <<[type |-> "tts", index |-> audioIndex, scene |-> index]>>
         \o ttsAudioInputs(scenes, index + 1, audioIndex + 1)
  ELSE ttsAudioInputs(scenes, index + 1, audioIndex)

\* audioInputs: the narration entries, then the background music's.
audioInputsOf(settings) ==
  LET tts == ttsAudioInputs(settings.scenes, 0, Len(settings.scenes))
  IN  tts \o (IF Truthy(settings.bgm)
              THEN <<[type |-> "bgm",
                      index |-> Len(settings.scenes) + Len(tts)]>>
              ELSE <<>>)

\* The paths of the narration files, in the order of their entries.
ttsPaths(settings, fileMapping) ==
  LET tts == ttsAudioInputs(settings.scenes, 0, Len(settings.scenes))
  IN  [k \in 1..Len(tts) |-> fileMapping[settings.scenes[tts[k].scene + 1].tts]]

\* The path of the background music, when the descriptor names one.
bgmPath(settings, fileMapping) ==
  IF Truthy(settings.bgm) THEN <<fileMapping[settings.bgm]>> ELSE <<>>

\* The inputs with the background music added before the narration.
inputListBgmFirst(settings, fileMapping) ==
  imageInputs(settings.scenes, fileMapping)
    \o bgmPath(settings, fileMapping)
    \o ttsPaths(settings, fileMapping)

\* The inputs in the order of the ffmpegCommand.input calls: the loop over
\* the images, the loop over the narration, the background music.
inputList(settings, fileMapping) ==
  imageInputs(settings.scenes, fileMapping)
    \o ttsPaths(settings, fileMapping)
    \o bgmPath(settings, fileMapping)

\* The node of one scene: [index:v] scaled and padded to 1920x1080, with
\* setpts, fps=30 and loop=-1 (size 1), labelled v{index}.  The scene's
\* duration is computed in the loop and used nowhere in the node.
sceneNode(index) ==
  [ins    |-> << <<index, "v">> >>,
   filter |-> [name |-> "scale,pad,setpts,fps,loop",
               scale |-> <<1920, 1080>>, pad |-> <<1920, 1080>>,
               fps |-> 30, loop |-> -1, size |-> 1],
   out    |-> <<"v", index>>,
   end    |-> ";"]

\* How long the segment of a scene node lasts: the loop filter repeats
\* its size frames loop more times, without end when loop is -1, at fps
\* frames a second.
segmentLength(node) ==
  IF node.filter.loop = -1 THEN [bounded |-> FALSE, seconds |-> 0]
  ELSE [bounded |-> TRUE,
        seconds |-> ((node.filter.loop + 1) * node.filter.size)
                      \div node.filter.fps]

\* The concat node reading the labels v1..vn in the place of v0..v(n-1).
concatNodeFromOne(n) ==
  [ins    |-> [i \in 1..n |-> <<"v", i>>],
   filter |-> [name |-> "concat", n |-> n, v |-> 1, a |-> 0],
   out    |-> <<"video">>,
   end    |-> ";"]

\* [v0]...[v(n-1)]concat=n=N:v=1:a=0[video]
concatNode(n) ==
  [ins    |-> [i \in 1..n |-> <<"v", i - 1>>],
   filter |-> [name |-> "concat", n |-> n, v |-> 1, a |-> 0],
   out    |-> <<"video">>,
   end    |-> ";"]

\* videoFilter before the subtitles: a node per scene, then the concat.
videoNodes(settings) ==
  [i \in 1..Len(settings.scenes) |-> sceneNode(i - 1)]
    \o <<concatNode(Len(settings.scenes))>>

\* scene.subtitle && scene.subtitle.text
HasSubtitle(scene) ==
  "subtitle" \in DOMAIN scene /\ Truthy(scene.subtitle.text)

\* The sum of (s.duration || 3) over the scenes before index.
RECURSIVE startTimeOf(_, _)
startTimeOf(scenes, index) ==
  IF index = 0 THEN 0
  ELSE startTimeOf(scenes, index - 1) + SceneDuration(scenes[index])

\* between(t, min, max) of the drawtext enable expression: 1 when
\* min <= t <= max, both ends included.
between(t, min, max) == min <= t /\ t <= max

\* The drawtext node labelled video_sub, without the scene's index.
drawTextNodeOneLabel(scenes, index, currentVideoStream, fontFile) ==
  LET scene     == scenes[index + 1]
      startTime == startTimeOf(scenes, index)
      endTime   == startTime + SceneDuration(scene)
      fontSize  == IF "fontSize" \in DOMAIN scene.subtitle
                      /\ scene.subtitle.fontSize # 0
                   THEN scene.subtitle.fontSize ELSE 24
  IN  [ins    |-> <<currentVideoStream>>,
       filter |-> [name |-> "drawtext", fontfile |-> fontFile,
                   text |-> escapeFFmpegText(scene.subtitle.text),
                   fontsize |-> fontSize,
                   enable |-> <<startTime, endTime>>],
       out    |-> <<"video_sub">>,
       end    |-> ";"]

\* The drawtext node of the scene at index, reading currentVideoStream.
drawTextNode(scenes, index, currentVideoStream, fontFile) ==
  LET scene     == scenes[index + 1]
      startTime == startTimeOf(scenes, index)
      endTime   == startTime + SceneDuration(scene)
      fontSize  == IF "fontSize" \in DOMAIN scene.subtitle
                      /\ scene.subtitle.fontSize # 0
                   THEN scene.subtitle.fontSize ELSE 24
  IN  [ins    |-> <<currentVideoStream>>,
       filter |-> [name |-> "drawtext", fontfile |-> fontFile,
                   text |-> escapeFFmpegText(scene.subtitle.text),
                   fontsize |-> fontSize,
                   enable |-> <<startTime, endTime>>],
       out    |-> <<"video_sub", index>>,
       end    |-> ";"]

\* The subtitle loop with every drawtext node reading the label the loop
\* started from.
RECURSIVE subtitleChainFromVideo(_, _, _, _)
subtitleChainFromVideo(scenes, index, currentVideoStream, fontFile) ==
  IF index = Len(scenes)
    THEN [nodes |-> <<>>, current |-> currentVideoStream]
  ELSE IF HasSubtitle(scenes[index + 1])
    THEN LET node == drawTextNode(scenes, index, currentVideoStream, fontFile)
             rest == subtitleChainFromVideo(scenes, index + 1,
                                            currentVideoStream, fontFile)
         IN  [nodes   |-> <<node>> \o rest.nodes,
              current |-> IF rest.nodes = <<>> THEN node.out
                          ELSE rest.current]
  ELSE subtitleChainFromVideo(scenes, index + 1, currentVideoStream, fontFile)

\* The subtitle loop from index on: the nodes it adds and the label
\* currentVideoStream ends at.
RECURSIVE subtitleChain(_, _, _, _)
subtitleChain(scenes, index, currentVideoStream, fontFile) ==
  IF index = Len(scenes)
    THEN [nodes |-> <<>>, current |-> currentVideoStream]
  ELSE IF HasSubtitle(scenes[index + 1])
    THEN LET node == drawTextNode(scenes, index, currentVideoStream, fontFile)
             rest == subtitleChain(scenes, index + 1, node.out, fontFile)
         IN  [nodes |-> <<node>> \o rest.nodes, current |-> rest.current]
  ELSE subtitleChain(scenes, index + 1, currentVideoStream, fontFile)

\* audioFilter: narration and music, narration only, music only, or none.
audioNodes(audioInputs) ==
  LET ttsInputs  == SelectSeq(audioInputs, LAMBDA a : a.type = "tts")
      bgmInputs  == SelectSeq(audioInputs, LAMBDA a : a.type = "bgm")
      ttsStreams == [k \in 1..Len(ttsInputs) |-> <<ttsInputs[k].index, "a">>]
  IN  IF Len(ttsInputs) > 0 /\ Len(bgmInputs) > 0
        THEN << [ins    |-> ttsStreams,
                 filter |-> [name |-> "concat", n |-> Len(ttsInputs),
                             v |-> 0, a |-> 1],
                 out    |-> <<"tts_combined">>,
                 end    |-> ";"],
                [ins    |-> << <<"tts_combined">>, <<bgmInputs[1].index, "a">> >>,
                 filter |-> [name |-> "amix", inputs |-> 2,
                             duration |-> "shortest",
                             dropout_transition |-> 2],
                 out    |-> <<"audio">>,
                 end    |-> ""] >>
      ELSE IF Len(ttsInputs) > 0
        THEN << [ins    |-> ttsStreams,
                 filter |-> [name |-> "concat", n |-> Len(ttsInputs),
                             v |-> 0, a |-> 1],
                 out    |-> <<"audio">>,
                 end    |-> ""] >>
      ELSE IF Len(bgmInputs) > 0
        THEN << [ins    |-> << <<bgmInputs[1].index, "a">> >>,
                 filter |-> [name |-> "acopy"],
                 out    |-> <<"audio">>,
                 end    |-> ""] >>
      ELSE <<>>

\* currentVideoStream.replace('[', '').replace(']', ''): the label's name
\* without its brackets, as the first -map option is given.
stripBrackets(stream) == [label |-> stream, brackets |-> FALSE]

\* What assembleVideo has built when it calls run(): no step of the
\* function returns or throws before that call.
assembleVideo(settings, fileMapping, fontFile) ==
  LET subtitles   == subtitleChain(settings.scenes, 0, <<"video">>, fontFile)
      videoFilter == videoNodes(settings) \o subtitles.nodes
      audioFilter == audioNodes(audioInputsOf(settings))
  IN  [inputs |-> inputList(settings, fileMapping),
       filter |-> videoFilter \o audioFilter,
       maps   |-> <<stripBrackets(subtitles.current)>>
                  \o (IF audioFilter # <<>>
                      THEN <<[label |-> <<"audio">>, brackets |-> TRUE]>>
                      ELSE <<>>),
       run    |-> TRUE]

\* One call of assembleVideo up to run(), the only step of a behaviour.
AssemblePlan(settings, existing) ==
  /\ probe = NoProbe
  /\ probe' = [fn |-> "assembleVideo", settings |-> settings,
               fontFile |-> findAvailableFont(existing),
               plan |-> assembleVideo(settings, FileMappingOf(settings),
                                      findAvailableFont(existing))]
  /\ UNCHANGED <<projects, projectFiles, projectDir, jobs, launched, last,
                 pending>>

AssembleNext ==
  \E settings \in AssembleDescriptors, existing \in FontHosts :
    AssemblePlan(settings, existing)

AssembleSpec == Init /\ [][AssembleNext]_vars

\* C14: the inputs are the image of each scene in scene order, then the
\* narration of each scene that has one in scene order, then the
\* background music when there is one: the k-th image is input k, the k-th
\* narration follows the m images as input m + k, the music is the last
\* input.
C14_InputOrder ==
  probe.fn = "assembleVideo" =>
    LET scenes    == probe.settings.scenes
        n         == Len(scenes)
        inputs    == probe.plan.inputs
        withImage == { i \in 1..n : scenes[i].image # NoName }
        withTts   == { i \in 1..n : scenes[i].tts # NoName }
        music     == IF probe.settings.bgm # NoName THEN 1 ELSE 0
    IN  /\ Len(inputs) = Cardinality(withImage) + Cardinality(withTts) + music
        /\ \A i \in withImage :
             inputs[Cardinality({ j \in withImage : j <= i })]
               = TargetPath(1, scenes[i].image)
        /\ \A i \in withTts :
             inputs[Cardinality(withImage)
                    + Cardinality({ j \in withTts : j <= i })]
               = TargetPath(1, scenes[i].tts)
        /\ music = 1 => inputs[Len(inputs)] = TargetPath(1, probe.settings.bgm)

\* Three scenes, narration on the first and the third, background music:
\* the inputs are img1, img2, img3, tts1, tts3, bgm.
C14_Witness ==
  /\ probe.fn = "assembleVideo"
  /\ Len(probe.settings.scenes) = 3
  /\ probe.settings.scenes[2].tts = NoName
  /\ probe.plan.inputs = << TargetPath(1, Img1), TargetPath(1, Img2),
                            TargetPath(1, Img3), TargetPath(1, Tts1),
                            TargetPath(1, Tts3), TargetPath(1, BgmM) >>

\* C15: for n >= 1 scenes the filter holds exactly one video concat node;
\* it reads the n labels v0..v(n-1) in ascending order, each the output of
\* one node before it, declares n inputs and writes the label video.
C15_SingleVideoConcat ==
  (probe.fn = "assembleVideo" /\ Len(probe.settings.scenes) >= 1) =>
    LET n       == Len(probe.settings.scenes)
        nodes   == probe.plan.filter
        concats == { k \in 1..Len(nodes) :
                       nodes[k].filter.name = "concat" /\ nodes[k].filter.v = 1 }
    IN  /\ Cardinality(concats) = 1
        /\ \A k \in concats :
             /\ Len(nodes[k].ins) = n
             /\ nodes[k].filter.n = n
             /\ \A i \in 1..n :
                  /\ nodes[k].ins[i] = <<"v", i - 1>>
                  /\ Cardinality({ j \in 1..(k - 1) :
                                     nodes[j].out = <<"v", i - 1>> }) = 1
             /\ nodes[k].out = <<"video">>
        /\ Cardinality({ k \in 1..Len(nodes) : nodes[k].out = <<"video">> }) = 1

\* A plan for three scenes whose video concat node reads v0, v1, v2.
C15_Witness ==
  /\ probe.fn = "assembleVideo"
  /\ Len(probe.settings.scenes) = 3
  /\ \E k \in 1..Len(probe.plan.filter) :
       /\ probe.plan.filter[k].filter.name = "concat"
       /\ probe.plan.filter[k].ins = << <<"v", 0>>, <<"v", 1>>, <<"v", 2>> >>

\* C17: when a scene declares a duration <= 0, assembleVideo emits no
\* filter node and does not start ffmpeg.
C17_NonPositiveDurationRejected ==
  ( /\ probe.fn = "assembleVideo"
    /\ \E i \in 1..Len(probe.settings.scenes) :
         /\ "duration" \in DOMAIN probe.settings.scenes[i]
         /\ probe.settings.scenes[i].duration <= 0 )
  => (probe.plan.filter = <<>> /\ ~probe.plan.run)

(* ------------- the upload handler, await by await ---------------------- *)
(* POST /api/upload-file suspends at its awaits: fs.remove for a rejected  *)
(* file and fs.move for an accepted one, which fs-extra runs as a test for *)
(* the destination followed by a rename.  Other handlers run in between.   *)
(* validateFile awaits nothing, so the lookup, the file check and the      *)
(* validation run without another handler in between.                     *)

\* Upload requests that may be suspended at the same time.
MaxPending == 2

\* The bag b with one more copy of e.
BagAdd(b, e) ==
  [x \in (DOMAIN b) \cup {e} |->
     IF x = e THEN (IF e \in DOMAIN b THEN b[e] + 1 ELSE 1) ELSE b[x]]

\* The bag b with one copy of e less; the empty bag is NoPending.
BagRemove(b, e) ==
  IF b[e] > 1 THEN [b EXCEPT ![e] = @ - 1]
  ELSE IF DOMAIN b = {e} THEN NoPending
  ELSE [x \in (DOMAIN b) \ {e} |-> b[x]]

RECURSIVE BagSize(_)
BagSize(b) ==
  IF DOMAIN b = {} THEN 0
  ELSE LET e == CHOOSE x \in DOMAIN b : TRUE
       IN  b[e] + BagSize([x \in (DOMAIN b) \ {e} |-> b[x]])

\* A registry holding one project, as CreateProject leaves it.
UploadInit ==
  \E settings \in Descriptors :
    /\ projects = << [id            |-> 1,
                      settings      |-> settings,
                      requiredFiles |-> extractRequiredFiles(settings),
                      uploadedFiles |-> << >>,
                      status        |-> "created",
                      outputPath    |-> NoPath] >>
    /\ projectFiles = << << >> >>
    /\ projectDir = << << >> >>
    /\ jobs = << {} >>
    /\ launched = << 0 >>
    /\ last = [NoEvent EXCEPT !.op = "create", !.pid = 1,
                              !.settings = settings, !.code = 200]
    /\ pending = NoPending
    /\ probe = NoProbe

\* A step of the handler that sends no response.
Suspended(projectId) == [NoEvent EXCEPT !.op = "upload", !.pid = projectId]

\* The request arrives for a known project with a file: validateFile runs,
\* and the handler suspends at fs.remove (rejected) or at fs.move.
UploadReceive(projectId, fileName, file) ==
  /\ projectId \in DOMAIN projects
  /\ BagSize(pending) < MaxPending
  /\ LET validation == validateFile(file, fileName)
         request == IF validation.valid
                    THEN [pid |-> projectId, at |-> "move.pathExists",
                          fileName |-> fileName, file |-> file]
                    ELSE [pid |-> projectId, at |-> "remove",
                          error |-> validation.error]
     IN  pending' = BagAdd(pending, request)
  /\ last' = Suspended(projectId)
  /\ UNCHANGED <<projects, projectFiles, projectDir, jobs, launched, probe>>

\* fs.remove of the rejected temporary file is done: 400.
UploadRemoved(request) ==
  /\ request \in DOMAIN pending
  /\ request.at = "remove"
  /\ pending' = BagRemove(pending, request)
  /\ last' = [NoEvent EXCEPT !.op = "upload", !.pid = request.pid,
                             !.code = 400, !.error = request.error,
                             !.tmp = "removed"]
  /\ UNCHANGED <<projects, projectFiles, projectDir, jobs, launched, probe>>

\* fs.move finds the destination: it rejects with 'dest already exists.'
\* and the catch block answers 500.
MoveDestExists(request) ==
  /\ request \in DOMAIN pending
  /\ request.at = "move.pathExists"
  /\ request.fileName \in DOMAIN projectDir[request.pid]
  /\ pending' = BagRemove(pending, request)
  /\ last' = [NoEvent EXCEPT !.op = "upload", !.pid = request.pid,
                             !.code = 500, !.error = "UploadError",
                             !.tmp = "left"]
  /\ UNCHANGED <<projects, projectFiles, projectDir, jobs, launched, probe>>

\* fs.move finds no destination and goes on to the rename.
MoveDestFree(request) ==
  /\ request \in DOMAIN pending
  /\ request.at = "move.pathExists"
  /\ request.fileName \notin DOMAIN projectDir[request.pid]
  /\ pending' = BagAdd(BagRemove(pending, request),
                       [request EXCEPT !.at = "move.rename"])
  /\ last' = Suspended(request.pid)
  /\ UNCHANGED <<projects, projectFiles, projectDir, jobs, launched, probe>>

\* The rename puts the file at targetPath, replacing a file that another
\* request put there since the test.
MoveRenamed(request) ==
  /\ request \in DOMAIN pending
  /\ request.at = "move.rename"
  /\ projectDir' = [projectDir EXCEPT
                      ![request.pid] = MapSet(@, request.fileName, request.file)]
  /\ pending' = BagAdd(BagRemove(pending, request),
                       [request EXCEPT !.at = "moved"])
  /\ last' = Suspended(request.pid)
  /\ UNCHANGED <<projects, projectFiles, jobs, launched, probe>>

\* The handler with the uploadedFiles.set left out of the block.
UploadStoredMappingOnly(request) ==
  /\ request \in DOMAIN pending
  /\ request.at = "moved"
  /\ projectFiles' = [projectFiles EXCEPT
                        ![request.pid] =
                          MapSet(@, request.fileName,
                                 TargetPath(request.pid, request.fileName))]
  /\ pending' = BagRemove(pending, request)
  /\ last' = [NoEvent EXCEPT !.op = "upload", !.pid = request.pid,
                             !.fileName = request.fileName, !.code = 200,
                             !.progress = Progress(projects[request.pid]),
                             !.tmp = "moved"]
  /\ UNCHANGED <<projects, projectDir, jobs, launched, probe>>

\* The handler resumes after fs.move: fileMap.set, uploadedFiles.set and
\* the 200 response run in one synchronous block.
UploadStored(request) ==
  /\ request \in DOMAIN pending
  /\ request.at = "moved"
  /\ LET targetPath == TargetPath(request.pid, request.fileName)
         entry == [path |-> targetPath, size |-> request.file.size,
                   mimetype |-> request.file.mimetype]
     IN  /\ projectFiles' = [projectFiles EXCEPT
                               ![request.pid] =
                                 MapSet(@, request.fileName, targetPath)]
         /\ projects' = [projects EXCEPT
                           ![request.pid].uploadedFiles =
                             MapSet(@, request.fileName, entry)]
  /\ pending' = BagRemove(pending, request)
  /\ last' = [NoEvent EXCEPT !.op = "upload", !.pid = request.pid,
                             !.fileName = request.fileName, !.code = 200,
                             !.progress = Progress(projects'[request.pid]),
                             !.tmp = "moved"]
  /\ UNCHANGED <<projectDir, jobs, launched, probe>>

\* The suspended requests there can be.
Requests ==
  { [pid |-> projectId, at |-> at, fileName |-> fileName, file |-> file] :
      projectId \in ProjectIds,
      at \in {"move.pathExists", "move.rename", "moved"},
      fileName \in FileNames, file \in UploadFiles }
  \cup { [pid |-> projectId, at |-> "remove", error |-> error] :
           projectId \in ProjectIds,
           error \in {"EmptyAsset", "UnsupportedExtension",
                      "ContentTypeMismatch"} }

UploadNext ==
  \/ \E projectId \in ProjectIds, fileName \in FileNames, file \in UploadFiles :
       UploadReceive(projectId, fileName, file)
  \/ \E request \in Requests :
       \/ UploadRemoved(request)
       \/ MoveDestExists(request)
       \/ MoveDestFree(request)
       \/ MoveRenamed(request)
       \/ UploadStored(request)
  \/ \E projectId \in ProjectIds : ProjectStatus(projectId)

UploadSpec == UploadInit /\ [][UploadNext]_vars

\* The two maps of project p have the same keys, and every key's file is
\* in the project directory at the path both maps record.
MapsAgree(p) ==
  /\ DOMAIN projectFiles[p] = DOMAIN projects[p].uploadedFiles
  /\ \A name \in DOMAIN projects[p].uploadedFiles :
       /\ projectFiles[p][name] = TargetPath(p, name)
       /\ projects[p].uploadedFiles[name].path = TargetPath(p, name)
       /\ name \in DOMAIN projectDir[p]

\* C19: however upload and status requests for one project interleave at
\* the awaits of the upload handler, the two maps keep the same key set
\* with every key's file at its recorded path, a status response reports
\* exactly those keys, an upload answered 200 is a key from then on, and
\* no key is ever dropped.
C19_UploadsAndStatusConsistent ==
  [][ /\ \A p \in DOMAIN projects :
           /\ MapsAgree(p)'
           /\ DOMAIN projects[p].uploadedFiles
                \subseteq DOMAIN projects'[p].uploadedFiles
      /\ (last'.op = "upload" /\ last'.code = 200) =>
           last'.fileName \in DOMAIN projects'[last'.pid].uploadedFiles
      /\ (last'.op = "status" /\ last'.code = 200) =>
           /\ last'.uploadedFiles = DOMAIN projectFiles'[last'.pid]
           /\ last'.progress.uploaded = Cardinality(last'.uploadedFiles)
           /\ \A name \in last'.uploadedFiles :
                name \in DOMAIN projectDir'[last'.pid]
    ]_vars

\* A status response sent while one upload of the project is renamed into
\* the directory but not yet in the maps, another is still suspended, and
\* a third name is already reported.
C19_Witness ==
  /\ last.op = "status"
  /\ last.code = 200
  /\ last.uploadedFiles # {}
  /\ BagSize(pending) = 2
  /\ \E request \in DOMAIN pending :
       /\ request.pid = last.pid
       /\ request.at = "moved"
       /\ request.fileName \notin last.uploadedFiles

(* -------------------------- two projects ------------------------------- *)

\* A registry holding two projects, as two CreateProject steps leave it.
PairInit ==
  \E settingsA \in Descriptors, settingsB \in Descriptors :
    /\ projects =
         << [id |-> 1, settings |-> settingsA,
             requiredFiles |-> extractRequiredFiles(settingsA),
             uploadedFiles |-> << >>, status |-> "created",
             outputPath |-> NoPath],
            [id |-> 2, settings |-> settingsB,
             requiredFiles |-> extractRequiredFiles(settingsB),
             uploadedFiles |-> << >>, status |-> "created",
             outputPath |-> NoPath] >>
    /\ projectFiles = << << >>, << >> >>
    /\ projectDir = << << >>, << >> >>
    /\ jobs = << {}, {} >>
    /\ launched = << 0, 0 >>
    /\ last = [NoEvent EXCEPT !.op = "create", !.pid = 2,
                              !.settings = settingsB, !.code = 200]
    /\ pending = NoPending
    /\ probe = NoProbe

\* Upload and status requests for both projects, assemble requests for
\* project 1 and the ends of its ffmpeg runs.
PairNext ==
  \/ \E projectId \in {1, 2}, fileName \in FileNames, file \in UploadFiles :
       \/ UploadInvalid(projectId, fileName, file)
       \/ UploadMoveFailed(projectId, fileName, file)
       \/ UploadAccepted(projectId, fileName, file)
  \/ \E projectId \in {1, 2} : ProjectStatus(projectId)
  \/ AssembleNotReady(1)
  \/ AssembleStart(1)
  \/ \E run \in 1..MaxLaunches :
       \/ \E output \in OutputFiles : AssembleDone(1, run, output)
       \/ AssembleCatch(1, run)

PairSpec == PairInit /\ [][PairNext]_vars

\* While project a is assembling with ffmpeg running, a status request for
\* another project b is answered, and so is every upload request for b
\* (as long as the bound on accepted uploads leaves room).
OthersNotBlocked ==
  \A a \in DOMAIN projects, b \in DOMAIN projects :
    (a # b /\ projects[a].status = "assembling" /\ jobs[a] # {}) =>
      /\ ENABLED ProjectStatus(b)
      /\ \A fileName \in FileNames, file \in UploadFiles :
           \/ TotalUploads >= MaxUploads
           \/ ENABLED ( \/ UploadInvalid(b, fileName, file)
                        \/ UploadMoveFailed(b, fileName, file)
                        \/ UploadAccepted(b, fileName, file) )

\* A step for project a (a request or the end of a run) leaves the
\* record, the file mapping, the files and the runs of every other project.
OthersUntouched ==
  \A b \in DOMAIN projects :
    last'.pid # b =>
      /\ projects'[b] = projects[b]
      /\ projectFiles'[b] = projectFiles[b]
      /\ projectDir'[b] = projectDir[b]
      /\ jobs'[b] = jobs[b]

\* C20: operations on different projects are independent: while project 1
\* is assembling with its ffmpeg run in flight, upload and status requests
\* for project 2 are answered without waiting for the run, and no step for
\* one project changes the other's status, asset maps or required files.
C20_ProjectsIndependent ==
  []OthersNotBlocked /\ [][OthersUntouched]_vars

\* An upload for project 2 accepted while project 1 is assembling with its
\* ffmpeg run in flight.
C20_Witness ==
  /\ Len(projects) = 2
  /\ projects[1].status = "assembling"
  /\ jobs[1] # {}
  /\ last.op = "upload"
  /\ last.code = 200
  /\ last.pid = 2
  /\ projects[2].status = "created"

(* -------------------- the filter and the input list -------------------- *)

\* Input stream k of the command is the file at path (k counted from 0).
InputIs(inputs, k, path) ==
  /\ k + 1 \in 1..Len(inputs)
  /\ inputs[k + 1] = path

\* The scenes (counted from 1) that name a narration file, in scene order.
RECURSIVE ScenesWithTts(_, _)
ScenesWithTts(scenes, from) ==
  IF from > Len(scenes) THEN <<>>
  ELSE (IF scenes[from].tts # NoName THEN <<from>> ELSE <<>>)
       \o ScenesWithTts(scenes, from + 1)

\* C23: every input index of the filter is the position of that asset in
\* the input list: [k:v] of scene i's node is scene i's image, the [k:a]
\* of the narration concat are the narration files in scene order, and the
\* [k:a] of the music is the background music file.
C23_InputIndicesMatch ==
  probe.fn = "assembleVideo" =>
    LET scenes  == probe.settings.scenes
        inputs  == probe.plan.inputs
        nodes   == probe.plan.filter
        spoken  == ScenesWithTts(scenes, 1)
    IN  \A k \in 1..Len(nodes) :
          LET node == nodes[k]
          IN  /\ node.filter.name = "scale,pad,setpts,fps,loop" =>
                   LET scene == scenes[node.out[2] + 1]
                   IN  /\ scene.image # NoName
                       /\ InputIs(inputs, node.ins[1][1],
                                  TargetPath(1, scene.image))
              /\ (node.filter.name = "concat" /\ node.filter.v = 0) =>
                   /\ Len(node.ins) = Len(spoken)
                   /\ \A j \in 1..Len(node.ins) :
                        InputIs(inputs, node.ins[j][1],
                                TargetPath(1, scenes[spoken[j]].tts))
              /\ node.filter.name = "amix" =>
                   InputIs(inputs, node.ins[2][1],
                           TargetPath(1, probe.settings.bgm))
              /\ node.filter.name = "acopy" =>
                   InputIs(inputs, node.ins[1][1],
                           TargetPath(1, probe.settings.bgm))

\* The labels a node reads: the inputs of the video concat and of a
\* drawtext node, and the first input of amix; the other inputs are
\* streams of input files.
LabelsConsumed(node) ==
  IF node.filter.name = "drawtext" THEN node.ins
  ELSE IF node.filter.name = "concat" /\ node.filter.v = 1 THEN node.ins
  ELSE IF node.filter.name = "amix" THEN <<node.ins[1]>>
  ELSE <<>>

\* C24: every label a node reads is written by a node earlier in the
\* filter, and no label is written by two nodes.
C24_LabelsProducedOnce ==
  probe.fn = "assembleVideo" =>
    LET nodes == probe.plan.filter
    IN  /\ \A k \in 1..Len(nodes) :
             \A j \in 1..Len(LabelsConsumed(nodes[k])) :
               \E e \in 1..(k - 1) :
                 nodes[e].out = LabelsConsumed(nodes[k])[j]
        /\ \A k, e \in 1..Len(nodes) :
             nodes[k].out = nodes[e].out => k = e

\* A plan with two subtitles, narration and background music.
C24_Witness ==
  /\ probe.fn = "assembleVideo"
  /\ Len(SelectSeq(probe.plan.filter,
                   LAMBDA node : node.filter.name = "drawtext")) = 2
  /\ \E k \in 1..Len(probe.plan.filter) :
       probe.plan.filter[k].filter.name = "amix"
  /\ Len(probe.settings.scenes) = MaxScenes

\* The scenes (counted from 0) that carry a subtitle with text, in scene
\* order.
RECURSIVE ScenesWithSubtitle(_, _)
ScenesWithSubtitle(scenes, from) ==
  IF from > Len(scenes) THEN <<>>
  ELSE (IF "subtitle" \in DOMAIN scenes[from]
           /\ scenes[from].subtitle.text # <<>>
        THEN <<from - 1>> ELSE <<>>)
       \o ScenesWithSubtitle(scenes, from + 1)

\* The drawtext nodes of a filter, in the order of the filter.
Overlays(nodes) ==
  SelectSeq(nodes, LAMBDA node : node.filter.name = "drawtext")

\* C25: the drawtext nodes are one per scene with subtitle text, in scene
\* order; the first reads video, each later one reads the label of the one
\* before it, each writes video_sub{i} of its own scene, and no two read
\* the same label.
C25_OverlayChain ==
  probe.fn = "assembleVideo" =>
    LET titled   == ScenesWithSubtitle(probe.settings.scenes, 1)
        overlays == Overlays(probe.plan.filter)
    IN  /\ Len(overlays) = Len(titled)
        /\ \A m \in 1..Len(overlays) :
             /\ overlays[m].out = <<"video_sub", titled[m]>>
             /\ overlays[m].ins =
                  << IF m = 1 THEN <<"video">>
                     ELSE <<"video_sub", titled[m - 1]>> >>
        /\ \A m, n \in 1..Len(overlays) :
             overlays[m].ins = overlays[n].ins => m = n

\* A plan whose first and last scene carry a subtitle and whose middle
\* scene carries none.
C25_Witness ==
  /\ probe.fn = "assembleVideo"
  /\ Len(probe.settings.scenes) = 3
  /\ ScenesWithSubtitle(probe.settings.scenes, 1) = <<0, 2>>
  /\ Len(Overlays(probe.plan.filter)) = 2

\* The duration the descriptor gives a scene, 3 when it gives none.
GivenDuration(scene) ==
  IF "duration" \in DOMAIN scene THEN scene.duration ELSE 3

\* The sum of the given durations of the scenes before index.
RECURSIVE DurationBefore(_, _)
DurationBefore(scenes, index) ==
  IF index = 0 THEN 0
  ELSE DurationBefore(scenes, index - 1) + GivenDuration(scenes[index])

\* The overlay node is drawn on the frame at time t.
OverlayActive(node, t) ==
  between(t, node.filter.enable[1], node.filter.enable[2])

\* C26: when every given duration is positive, the overlay of subtitled
\* scene i is drawn at the instant t exactly when S <= t < S + d_i, with S
\* the sum of the durations before scene i and d_i its own duration.
C26_HalfOpenWindow ==
  ( /\ probe.fn = "assembleVideo"
    /\ \A i \in 1..Len(probe.settings.scenes) :
         GivenDuration(probe.settings.scenes[i]) > 0 )
  => LET scenes   == probe.settings.scenes
         overlays == Overlays(probe.plan.filter)
     IN  \A m \in 1..Len(overlays) :
           LET i == overlays[m].out[2]
               S == DurationBefore(scenes, i)
               d == GivenDuration(scenes[i + 1])
           IN  \A t \in 0..(DurationBefore(scenes, Len(scenes)) + 1) :
                 OverlayActive(overlays[m], t) <=> (S <= t /\ t < S + d)

\* Some node of the filter writes the label.
Produced(nodes, label) ==
  \E k \in 1..Len(nodes) : nodes[k].out = label

\* C27: the first -map option names, as a filter label in brackets, the
\* label of the last overlay (video when there is none); an audio -map is
\* given exactly when a node writes audio, and it names [audio]; every
\* mapped label is written by a node of the filter.  Stated for the
\* descriptors that have a scene.
C27_ExplicitStreamMapping ==
  (probe.fn = "assembleVideo" /\ Len(probe.settings.scenes) > 0) =>
    LET nodes    == probe.plan.filter
        maps     == probe.plan.maps
        overlays == Overlays(nodes)
        final    == IF overlays = <<>> THEN <<"video">>
                    ELSE overlays[Len(overlays)].out
    IN  /\ Len(maps) >= 1
        /\ maps[1] = [label |-> final, brackets |-> TRUE]
        /\ Produced(nodes, final)
        /\ Len(maps) = (IF Produced(nodes, <<"audio">>) THEN 2 ELSE 1)
        /\ Len(maps) = 2 => maps[2] = [label |-> <<"audio">>, brackets |-> TRUE]

\* The nodes of a filter that work on audio, in the order of the filter.
AudioPart(nodes) ==
  SelectSeq(nodes, LAMBDA node :
    \/ node.filter.name \in {"amix", "acopy", "volume"}
    \/ (node.filter.name = "concat" /\ node.filter.v = 0))

\* The node concatenates the narration files of the scenes, in scene
\* order, and nothing else.
ConcatsNarration(node, settings, inputs) ==
  LET spoken == ScenesWithTts(settings.scenes, 1)
  IN  /\ node.filter.name = "concat"
      /\ node.filter.a = 1
      /\ Len(node.ins) = Len(spoken)
      /\ \A j \in 1..Len(spoken) :
           InputIs(inputs, node.ins[j][1],
                   TargetPath(1, settings.scenes[spoken[j]].tts))

\* Narration and music: the narration concat, then its mix with the music
\* under the shortest-input policy.
NarrationAndMusicCase ==
  LET settings == probe.settings
      audio    == AudioPart(probe.plan.filter)
  IN  (ScenesWithTts(settings.scenes, 1) # <<>> /\ settings.bgm # NoName) =>
        /\ Len(audio) = 2
        /\ ConcatsNarration(audio[1], settings, probe.plan.inputs)
        /\ audio[2].filter.name = "amix"
        /\ audio[2].filter.duration = "shortest"
        /\ audio[2].ins[1] = audio[1].out
        /\ InputIs(probe.plan.inputs, audio[2].ins[2][1],
                   TargetPath(1, settings.bgm))

\* Narration only: the narration concat and nothing else.
NarrationOnlyCase ==
  LET settings == probe.settings
      audio    == AudioPart(probe.plan.filter)
  IN  (ScenesWithTts(settings.scenes, 1) # <<>> /\ settings.bgm = NoName) =>
        /\ Len(audio) = 1
        /\ ConcatsNarration(audio[1], settings, probe.plan.inputs)

\* Music only: the music through a volume filter and nothing else.
MusicOnlyCase ==
  LET settings == probe.settings
      audio    == AudioPart(probe.plan.filter)
  IN  (ScenesWithTts(settings.scenes, 1) = <<>> /\ settings.bgm # NoName) =>
        /\ Len(audio) = 1
        /\ audio[1].filter.name = "volume"
        /\ Len(audio[1].ins) = 1
        /\ InputIs(probe.plan.inputs, audio[1].ins[1][1],
                   TargetPath(1, settings.bgm))

\* C28: the audio of the filter follows the three cases of the
\* descriptor: narration concatenated in scene order and mixed with the
\* music under the shortest-input policy; narration concatenated alone;
\* the music passed through a volume filter alone.  Stated for the
\* descriptors that have a scene and whose scenes all name an image.
C28_AudioCaseSplit ==
  ( /\ probe.fn = "assembleVideo"
    /\ Len(probe.settings.scenes) > 0
    /\ \A i \in 1..Len(probe.settings.scenes) :
         probe.settings.scenes[i].image # NoName )
  => ( /\ NarrationAndMusicCase
       /\ NarrationOnlyCase
       /\ MusicOnlyCase )

\* The filter as text is its nodes, each followed by its end: it holds an
\* empty node exactly when a separator is followed by nothing, so every
\* node but the last ends with ";" and the last with nothing.
NoEmptyNode(nodes) ==
  /\ nodes # <<>>
  /\ \A k \in 1..(Len(nodes) - 1) : nodes[k].end = ";"
  /\ nodes[Len(nodes)].end = ""

\* Every label a node writes is read by a later node or named by a -map
\* option.
NoDanglingLabel(nodes, maps) ==
  \A k \in 1..Len(nodes) :
    \/ \E e \in (k + 1)..Len(nodes) :
         \E j \in 1..Len(LabelsConsumed(nodes[e])) :
           LabelsConsumed(nodes[e])[j] = nodes[k].out
    \/ \E m \in 1..Len(maps) : maps[m].label = nodes[k].out

\* C29: for a descriptor without narration and without background music
\* (with a scene, every scene naming an image) the command is run, the
\* filter has no audio node, no audio stream is mapped, and the filter
\* text has no empty node and no label left unread.
C29_SilentPlanWellFormed ==
  ( /\ probe.fn = "assembleVideo"
    /\ Len(probe.settings.scenes) > 0
    /\ \A i \in 1..Len(probe.settings.scenes) :
         /\ probe.settings.scenes[i].image # NoName
         /\ probe.settings.scenes[i].tts = NoName
    /\ probe.settings.bgm = NoName )
  => ( /\ probe.plan.run
       /\ AudioPart(probe.plan.filter) = <<>>
       /\ Len(probe.plan.maps) = 1
       /\ NoDanglingLabel(probe.plan.filter, probe.plan.maps)
       /\ NoEmptyNode(probe.plan.filter) )

\* The volumes the descriptor asks for, in tenths: the background music
\* at 0.3 and the narration at 1.0 when it gives none.
BackgroundVolume(settings) ==
  IF "global" \in DOMAIN settings
  THEN settings.global.backgroundMusicVolume ELSE 3

VoiceVolume(settings) ==
  IF "global" \in DOMAIN settings
  THEN settings.global.voiceVolume ELSE 10

\* The filter has a volume node with this multiplier.
ScaledBy(nodes, volume) ==
  \E k \in 1..Len(nodes) :
    /\ nodes[k].filter.name = "volume"
    /\ nodes[k].filter.volume = volume

\* The filter assembleVideo builds for the probe's descriptor with its
\* global settings replaced.
FilterWith(global) ==
  assembleVideo([probe.settings EXCEPT !.global = global],
                FileMappingOf(probe.settings), probe.fontFile).filter

\* C30: with narration and background music, the filter scales each track
\* by its own volume before the mix, and a descriptor that differs in one
\* of the two volumes gets a different filter.
C30_VolumesApplied ==
  ( /\ probe.fn = "assembleVideo"
    /\ "global" \in DOMAIN probe.settings
    /\ probe.settings.bgm # NoName
    /\ ScenesWithTts(probe.settings.scenes, 1) # <<>>
    /\ \A i \in 1..Len(probe.settings.scenes) :
         probe.settings.scenes[i].image # NoName )
  => LET global == probe.settings.global
     IN  /\ ScaledBy(probe.plan.filter, BackgroundVolume(probe.settings))
         /\ ScaledBy(probe.plan.filter, VoiceVolume(probe.settings))
         /\ FilterWith([global EXCEPT !.backgroundMusicVolume = @ + 1])
              # probe.plan.filter
         /\ FilterWith([global EXCEPT !.voiceVolume = @ + 1])
              # probe.plan.filter

(* ------------------------ the scene nodes ------------------------------ *)

\* The resolution the descriptor asks for, 1280x720 when it gives none.
TargetResolution(settings) ==
  IF "global" \in DOMAIN settings THEN settings.global.resolution
  ELSE <<1280, 720>>

\* The scene nodes of a filter, in the order of the filter.
SceneNodes(nodes) ==
  SelectSeq(nodes, LAMBDA node :
    node.filter.name = "scale,pad,setpts,fps,loop")

\* C31: every scene node scales and pads to the resolution of the
\* descriptor (1280x720 when it gives none), and a descriptor that differs
\* in the resolution only gets a filter with different dimensions.
C31_TargetResolution ==
  (probe.fn = "assembleVideo" /\ Len(probe.settings.scenes) > 0) =>
    LET normal == SceneNodes(probe.plan.filter)
    IN  /\ \A k \in 1..Len(normal) :
             /\ normal[k].filter.scale = TargetResolution(probe.settings)
             /\ normal[k].filter.pad = TargetResolution(probe.settings)
        /\ "global" \in DOMAIN probe.settings =>
             FilterWith([probe.settings.global
                           EXCEPT !.resolution = <<1280, 720>>])
               # probe.plan.filter

\* C32: with positive durations, the segment of scene i lasts d_i (3 when
\* the descriptor gives none): the node of every scene bounds its looped
\* image to that duration.
C32_SegmentLastsDuration ==
  ( /\ probe.fn = "assembleVideo"
    /\ Len(probe.settings.scenes) > 0
    /\ \A i \in 1..Len(probe.settings.scenes) :
         GivenDuration(probe.settings.scenes[i]) > 0 )
  => LET normal == SceneNodes(probe.plan.filter)
     IN  /\ Len(normal) = Len(probe.settings.scenes)
         /\ \A k \in 1..Len(normal) :
              /\ segmentLength(normal[k]).bounded
              /\ segmentLength(normal[k]).seconds
                   = GivenDuration(probe.settings.scenes[k])

(* --------------------- escaping and its inverse ------------------------ *)

\* out is text with each character kept or preceded by one backslash.
RECURSIVE EscapedCharwise(_, _)
EscapedCharwise(text, out) ==
  IF text = <<>> THEN out = <<>>
  ELSE \/ /\ Len(out) >= 1
          /\ out[1] = Head(text)
          /\ EscapedCharwise(Tail(text), Tail(out))
       \/ /\ Len(out) >= 2
          /\ out[1] = "\\"
          /\ out[2] = Head(text)
          /\ EscapedCharwise(Tail(text), SubSeq(out, 3, Len(out)))

\* s read from the left with every escaping backslash removed: a backslash
\* followed by a character stands for that character.
RECURSIVE Unescape(_)
Unescape(s) ==
  IF s = <<>> THEN <<>>
  ELSE IF Head(s) = "\\" /\ Len(s) >= 2
    THEN <<s[2]>> \o Unescape(SubSeq(s, 3, Len(s)))
  ELSE <<Head(s)>> \o Unescape(Tail(s))

\* C33: escapeFFmpegText maps each character of the text to itself or to
\* a backslash and itself, and removing the escaping backslashes from its
\* result gives the text back.
C33_EscapeRoundTrip ==
  probe.fn = "escapeFFmpegText" =>
    /\ EscapedCharwise(probe.text, probe.result)
    /\ Unescape(probe.result) = probe.text

\* A text with a backslash before a quote, escaped to four characters.
C33_Witness ==
  /\ probe.fn = "escapeFFmpegText"
  /\ probe.text = <<"\\", "'">>
  /\ probe.result = <<"\\", "\\", "\\", "'">>

(* -------------------------- the font size ------------------------------ *)

\* The range the /api/process-video handler keeps a font size in.
MinFontSize == 12
MaxFontSize == 72

\* C34: the font size of every drawtext node lies between MinFontSize and
\* MaxFontSize, and is 24 when the subtitle gives none.
C34_FontSizeClamped ==
  probe.fn = "assembleVideo" =>
    LET overlays == Overlays(probe.plan.filter)
    IN  \A m \in 1..Len(overlays) :
          LET subtitle == probe.settings.scenes[overlays[m].out[2] + 1].subtitle
          IN  /\ overlays[m].filter.fontsize >= MinFontSize
              /\ overlays[m].filter.fontsize <= MaxFontSize
              /\ "fontSize" \notin DOMAIN subtitle =>
                   overlays[m].filter.fontsize = 24

(* ------------------- uploads, readiness and retries -------------------- *)

\* Every required name of the project has an entry in its asset map.
ReadyNow(project) ==
  \A i \in 1..Len(project.requiredFiles) :
    project.requiredFiles[i] \in DOMAIN project.uploadedFiles

\* A status response and an assemble request tell the readiness of the
\* project as its required set and asset map are at that request.
ReadinessComputed ==
  /\ (last.op = "status" /\ last.code = 200) =>
       last.canAssemble = ReadyNow(projects[last.pid])
  /\ (last.op = "assemble" /\ last.code = 400) =>
       ~ReadyNow(projects[last.pid])
  /\ (last.op = "assemble" /\ last.code = 0) =>
       ReadyNow(projects[last.pid])

\* An accepted upload leaves the status, the descriptor, the required set
\* and the output path of every project, and the runs, as they were.
UploadKeepsLifecycle ==
  (last'.op = "upload" /\ last'.code = 200) =>
    /\ DOMAIN projects' = DOMAIN projects
    /\ \A p \in DOMAIN projects :
         /\ projects'[p].status = projects[p].status
         /\ projects'[p].settings = projects[p].settings
         /\ projects'[p].requiredFiles = projects[p].requiredFiles
         /\ projects'[p].outputPath = projects[p].outputPath
    /\ jobs' = jobs
    /\ launched' = launched

\* C35: an accepted upload changes the asset map only, never the status,
\* the required set or the output path, whatever the status is; and the
\* readiness a status or assemble request acts on is the one computed from
\* the required set and the asset map at that request.
C35_UploadChangesAssetsOnly ==
  []ReadinessComputed /\ [][UploadKeepsLifecycle]_vars

\* An upload accepted while the project is being assembled.
C35_Witness ==
  /\ last.op = "upload"
  /\ last.code = 200
  /\ projects[last.pid].status = "assembling"
  /\ ReadyNow(projects[last.pid])

\* A run of assembleVideo is started only by the step of an assemble
\* request that found nothing missing, and that step starts one run.
LaunchedByRequestOnly ==
  \A p \in DOMAIN launched :
    launched'[p] # launched[p] =>
      /\ last'.op = "assemble"
      /\ last'.pid = p
      /\ last'.code = 0
      /\ launched'[p] = launched[p] + 1
      /\ jobs'[p] = jobs[p] \cup {launched'[p]}
      /\ \A q \in DOMAIN launched \ {p} : launched'[q] = launched[q]

\* The step that ends a run, well or badly, starts none.
EndStartsNothing ==
  last'.op = "assembleEnd" =>
    /\ launched' = launched
    /\ \A p \in DOMAIN jobs : jobs'[p] \subseteq jobs[p]

\* C36: a failed transcode is not started again by the server: each
\* assemble request that finds nothing missing starts one run, and the
\* step in which a run fails starts none.
C36_NoAutomaticRetry ==
  [][LaunchedByRequestOnly /\ EndStartsNothing]_vars

\* A project with scenes whose only run failed: no run is in flight.
C36_Witness ==
  /\ last.op = "assembleEnd"
  /\ last.code = 500
  /\ Len(projects[last.pid].settings.scenes) > 0
  /\ launched[last.pid] = 1
  /\ jobs[last.pid] = {}
  /\ projects[last.pid].status = "error"

\* C37: a project with scenes has an output path exactly when its status
\* is completed; a project that is assembling or failed carries none.
C37_OutputPathIffCompleted ==
  \A p \in DOMAIN projects :
    Len(projects[p].settings.scenes) > 0 =>
      ((projects[p].outputPath # NoPath) <=> (projects[p].status = "completed"))

(* ------------ projects that require one file or two, alone ------------ *)

\* One scene with an image and nothing else: one required file.
SettingsImageOnly ==
  [scenes |-> << [image |-> ImageA, tts |-> NoName, sfx |-> NoName] >>,
   bgm    |-> NoName]

\* The create, upload and status requests for a project that requires one
\* file or two.
ProgressNext ==
  \/ \E settings \in {SettingsImageOnly, SettingsOne} : CreateProject(settings)
  \/ \E projectId \in ProjectIds : UploadNoFile(projectId)
  \/ \E projectId \in ProjectIds, fileName \in FileNames, file \in UploadFiles :
       \/ UploadInvalid(projectId, fileName, file)
       \/ UploadMoveFailed(projectId, fileName, file)
       \/ UploadAccepted(projectId, fileName, file)
  \/ \E projectId \in RequestIds :
       \/ StatusUnknownProject(projectId)
       \/ ProjectStatus(projectId)

ProgressSpec == Init /\ [][ProgressNext]_vars

\* C38: for a project with scenes, the progress of every upload and status
\* response counts no more uploaded files than required ones, and its
\* percentage is an integer from 0 to 100.
C38_ProgressWellFormed ==
  ( /\ last.op \in {"upload", "status"}
    /\ last.code = 200
    /\ Len(projects[last.pid].settings.scenes) > 0 )
  => ( /\ last.progress.uploaded <= last.progress.total
       /\ last.progress.percentage.kind = "num"
       /\ last.progress.percentage.val \in 0..100 )

(* ------------- uploads at their awaits while ffmpeg runs --------------- *)
(* Projects with an image and a narration track; the requests are for the *)
(* first.  The upload handler is split at its awaits as above; the        *)
(* assemble handler starts and ends runs in between.                       *)

\* Two image files that differ in size, and a narration file.
AssemblingFiles ==
  { [size |-> 1, mimetype |-> ImagePng],
    [size |-> 2, mimetype |-> ImagePng],
    [size |-> 1, mimetype |-> AudioMpeg] }

\* The suspended requests there can be for the two required names.
AssemblingRequests ==
  { [pid |-> 1, at |-> at, fileName |-> fileName, file |-> file] :
      at \in {"move.pathExists", "move.rename", "moved"},
      fileName \in {ImageA, TtsT}, file \in AssemblingFiles }
  \cup { [pid |-> 1, at |-> "remove", error |-> "ContentTypeMismatch"] }

AssemblingNext ==
  \/ CreateProject(SettingsOne)
  \/ \E fileName \in {ImageA, TtsT}, file \in AssemblingFiles :
       UploadReceive(1, fileName, file)
  \/ \E request \in AssemblingRequests :
       \/ UploadRemoved(request)
       \/ MoveDestExists(request)
       \/ MoveDestFree(request)
       \/ MoveRenamed(request)
       \/ UploadStored(request)
  \/ AssembleNotReady(1)
  \/ AssembleStart(1)
  \/ \E run \in 1..MaxLaunches :
       \/ \E output \in OutputFiles : AssembleDone(1, run, output)
       \/ AssembleCatch(1, run)

AssemblingSpec == Init /\ [][AssemblingNext]_vars

\* While a run of project p is in flight, the entry of the asset map and
\* the file in the project directory stay as they are for every name the
\* project requires.
AssetsFrozen(p) ==
  jobs[p] # {} =>
    \A i \in 1..Len(projects[p].requiredFiles) :
      LET name == projects[p].requiredFiles[i]
      IN  /\ projectFiles'[p][name] = projectFiles[p][name]
          /\ projectDir'[p][name] = projectDir[p][name]
          /\ projects'[p].uploadedFiles[name] = projects[p].uploadedFiles[name]

\* C39: while the transcode of a project runs, no step replaces or moves
\* an asset the transcode reads, nor its entry in the asset map.
C39_AssetsFrozenWhileAssembling ==
  [][\A p \in DOMAIN projects : AssetsFrozen(p)]_vars

(* ------------- the audio mix of POST /api/process-video ---------------- *)
(* The single-request handler in its two versions (src/unnamed/part_000    *)
(* and part_001): the inputs it adds after the image, and the filter it    *)
(* builds for the narration of the subtitles and the background music.     *)

\* Subtitles of a descriptor given to the handler.
MaxSubtitles == 2

\* A subtitle without narration, and with one of two narration files.
SubtitleKinds ==
  { [audioFile |-> NoName], [audioFile |-> TtsT], [audioFile |-> Tts1] }

\* settings.json: the first scene's image, global.backgroundMusic and the
\* subtitles.
ProcessVideoSettings ==
  { [image |-> ImageA, backgroundMusic |-> backgroundMusic,
     subtitles |-> subtitles] :
      backgroundMusic \in {NoName, BgmM},
      subtitles \in UNION { [1..n -> SubtitleKinds] : n \in 0..MaxSubtitles } }

\* The names of the media files sent with the request: the image, and any
\* of the audio files.
MediaFileSets == { {ImageA} \cup files : files \in SUBSET {BgmM, TtsT, Tts1} }

\* The audio files of the subtitles that are among the media files, in the
\* order of the subtitles: each is added as an input.
RECURSIVE subtitleAudio(_, _)
subtitleAudio(subtitles, mediaFiles) ==
  IF subtitles = <<>> THEN <<>>
  ELSE (IF Truthy(Head(subtitles).audioFile)
           /\ Head(subtitles).audioFile \in mediaFiles
        THEN <<Head(subtitles).audioFile>> ELSE <<>>)
       \o subtitleAudio(Tail(subtitles), mediaFiles)

\* filterComplex for count narration inputs numbered from audioIndex on:
\* [1:a]volume[bg] when bgVolume, [k:a]volume[tts{idx}] for each, and the
\* amix of [bg] (when bgMixed) and the tts labels.  complexFilter is only
\* called (applied) when the mix has more than one input.
mixFilter(audioIndex, count, bgVolume, bgMixed) ==
  LET bgNode    == IF bgVolume
                   THEN << [ins    |-> << <<1, "a">> >>,
                            filter |-> [name |-> "volume"],
                            out    |-> <<"bg">>] >>
                   ELSE <<>>
      ttsNodes  == [k \in 1..count |->
                      [ins    |-> << <<audioIndex + k - 1, "a">> >>,
                       filter |-> [name |-> "volume"],
                       out    |-> <<"tts", k - 1>>]]
      mixInputs == (IF bgMixed THEN << <<"bg">> >> ELSE <<>>)
                     \o [k \in 1..count |-> <<"tts", k - 1>>]
  IN  IF count = 0 THEN [filter |-> <<>>, applied |-> FALSE]
      ELSE IF Len(mixInputs) > 1
        THEN [filter  |-> bgNode \o ttsNodes \o
                            << [ins    |-> mixInputs,
                                filter |-> [name |-> "amix",
                                            inputs |-> Len(mixInputs),
                                            duration |-> "longest"],
                                out    |-> <<"aout">>] >>,
              applied |-> TRUE]
      ELSE [filter |-> bgNode \o ttsNodes, applied |-> FALSE]

\* part_000: the music is an input when it is configured and sent; the
\* narration is numbered from 2 on; [bg] is produced when the music is an
\* input and mixed when it is configured.
processVideoAudio000(settings, mediaFiles) ==
  LET bgmInput == Truthy(settings.backgroundMusic)
                    /\ settings.backgroundMusic \in mediaFiles
      audio    == subtitleAudio(settings.subtitles, mediaFiles)
      mix      == mixFilter(2, Len(audio), bgmInput,
                            Truthy(settings.backgroundMusic))
  IN  [threw   |-> FALSE,
       inputs  |-> <<settings.image>>
                     \o (IF bgmInput THEN <<settings.backgroundMusic>> ELSE <<>>)
                     \o audio,
       filter  |-> mix.filter,
       applied |-> mix.applied]

\* part_001: the handler throws when a configured file was not sent;
\* otherwise the narration is numbered from 2 on when music is configured
\* and from 1 on when not, and [bg] is produced and mixed when music is
\* configured.
processVideoAudio001(settings, mediaFiles) ==
  LET configured == Truthy(settings.backgroundMusic)
      missing    == \/ configured /\ settings.backgroundMusic \notin mediaFiles
                    \/ \E i \in 1..Len(settings.subtitles) :
                         /\ Truthy(settings.subtitles[i].audioFile)
                         /\ settings.subtitles[i].audioFile \notin mediaFiles
      audio      == subtitleAudio(settings.subtitles, mediaFiles)
      mix        == mixFilter(IF configured THEN 2 ELSE 1, Len(audio),
                              configured, configured)
  IN  IF missing
      THEN [threw |-> TRUE, inputs |-> <<>>, filter |-> <<>>,
            applied |-> FALSE]
      ELSE [threw   |-> FALSE,
            inputs  |-> <<settings.image>>
                          \o (IF configured THEN <<settings.backgroundMusic>>
                              ELSE <<>>)
                          \o audio,
            filter  |-> mix.filter,
            applied |-> mix.applied]

\* One request to the handler of part_000, up to the start of ffmpeg.
ProcessVideo000(settings, mediaFiles) ==
  /\ probe = NoProbe
  /\ probe' = [fn |-> "processVideo", version |-> 0, settings |-> settings,
               mediaFiles |-> mediaFiles,
               plan |-> processVideoAudio000(settings, mediaFiles)]
  /\ UNCHANGED <<projects, projectFiles, projectDir, jobs, launched, last,
                 pending>>

\* One request to the handler of part_001, up to the start of ffmpeg.
ProcessVideo001(settings, mediaFiles) ==
  /\ probe = NoProbe
  /\ probe' = [fn |-> "processVideo", version |-> 1, settings |-> settings,
               mediaFiles |-> mediaFiles,
               plan |-> processVideoAudio001(settings, mediaFiles)]
  /\ UNCHANGED <<projects, projectFiles, projectDir, jobs, launched, last,
                 pending>>

ProcessVideoNext ==
  \E settings \in ProcessVideoSettings, mediaFiles \in MediaFileSets :
    \/ ProcessVideo000(settings, mediaFiles)
    \/ ProcessVideo001(settings, mediaFiles)

ProcessVideoSpec == Init /\ [][ProcessVideoNext]_vars

\* The audio files the subtitles name, in their order.
RECURSIVE NarrationNames(_)
NarrationNames(subtitles) ==
  IF subtitles = <<>> THEN <<>>
  ELSE (IF Head(subtitles).audioFile # NoName
        THEN <<Head(subtitles).audioFile>> ELSE <<>>)
       \o NarrationNames(Tail(subtitles))

\* The narration files that were sent, in the order of the subtitles.
SentNarration(subtitles, mediaFiles) ==
  SelectSeq(NarrationNames(subtitles), LAMBDA name : name \in mediaFiles)

\* C40: in the filter the handler gives to ffmpeg, the input index of each
\* narration track and of the background music is the position at which
\* that file was added as an input (the image being input 0), and the mix
\* reads [bg] only when a node writes it.
C40_ProcessVideoIndices ==
  (probe.fn = "processVideo" /\ probe.plan.applied) =>
    LET nodes  == probe.plan.filter
        inputs == probe.plan.inputs
        sent   == SentNarration(probe.settings.subtitles, probe.mediaFiles)
    IN  /\ InputIs(inputs, 0, probe.settings.image)
        /\ \A k \in 1..Len(nodes) :
             /\ (nodes[k].filter.name = "volume" /\ nodes[k].out[1] = "tts") =>
                  /\ nodes[k].out[2] + 1 \in 1..Len(sent)
                  /\ InputIs(inputs, nodes[k].ins[1][1],
                             sent[nodes[k].out[2] + 1])
             /\ (nodes[k].filter.name = "volume" /\ nodes[k].out[1] = "bg") =>
                  InputIs(inputs, nodes[k].ins[1][1],
                          probe.settings.backgroundMusic)
             /\ nodes[k].filter.name = "amix" =>
                  \A j \in 1..Len(nodes[k].ins) :
                    Produced(nodes, nodes[k].ins[j])

====
